---- MODULE Spec2Model ----
(***************************************************************************)
(* Migration Orchestration Core of agentic-ai-platform.                    *)
(*                                                                         *)
(* The migration-plan state machine of                                     *)
(* src/src/orchestration/migration_orchestrator.py (MigrationOrchestrator) *)
(* over the data model of src/src/models/customer.py, with the parts of    *)
(* the risk model and of the playbook selector that create_migration_plan  *)
(* stores in a plan.  Beside it, each under a specification of its own:   *)
(* the SimulationEngine of src/src/simulation/simulation_engine.py over    *)
(* src/src/models/simulation.py, and the CutoverCoordinator of             *)
(* src/src/cutover/cutover_coordinator.py.  None of the three reads or     *)
(* writes the state of another.                                            *)
(*                                                                         *)
(* Units: risk-factor scores are kept in tenths, category weights in       *)
(* hundredths and overall scores in thousandths, so that every score the   *)
(* code computes on the modelled inputs is an integer here.  Time is in    *)
(* days.  An unset Optional[datetime] is the empty sequence, a set one the *)
(* one-element sequence of its day.  The clock is logical: a handler that  *)
(* calls datetime.utcnow() reads `now`, and the clock has advanced by the   *)
(* time the next handler reads it.                                         *)
(***************************************************************************)
EXTENDS Integers, Sequences, FiniteSets, TLC

\* ------------------------------------------------------------------ bounds
\* the longest channel list of a customer handed to create_migration_plan
MaxChannels == 2
\* the largest value of the clock read by datetime.utcnow(); the handlers
\* that read the clock (create_migration_plan, execute_migration) are taken
\* only below it
MaxClock == 2
\* the most notes that calls append to the channel migrations of one plan
MaxNotes == 3
\* the longest list of scenarios of a MigrationSimulation built by a caller
MaxScenarios == 2
\* the longest list of compliance requirements of an assessed customer
MaxRequirements == 2
\* the most calls of the RiskAssessor whose arguments and results are kept
MaxAssessments == 3
\* the most records of one legacy DB2 table
MaxRecords == 2

\* ------------------------------------------------------------- data model
\* ChannelType (str, Enum); models are built with use_enum_values
ChannelTypeSeq == <<"rest_api", "edi", "sftp", "thick_client", "soap_api", "web_portal">>

ChannelType == {ChannelTypeSeq[i] : i \in 1..Len(ChannelTypeSeq)}

\* MigrationStatus (str, Enum)
MigrationStatus ==
    {"pending", "planning", "risk_assessment", "simulation", "ready",
     "in_progress", "completed", "failed", "rolled_back"}

\* None for an Optional field, and for an omitted channel_id argument
None == <<>>

\* a float as the exact fraction num / den
Rate(num, den) == [num |-> num, den |-> den]

\* rate >= percent, for a fraction
AtLeast(rate, percent) == rate.num >= percent * rate.den

NoChannelId == "<None>"

\* the strategies a caller passes; any string other than the first two takes
\* the else branch of _calculate_timeline
Strategies == {"phased", "big-bang", "parallel"}

\* the reasons a caller passes to rollback_migration (the default one)
Reasons == {"Manual rollback"}

\* ---------------------------------------------------------------- inputs
ChannelIdOf(i) ==
    CASE i = 1 -> "CH001"
      [] i = 2 -> "CH002"
      [] i = 3 -> "CH003"
      [] i = 4 -> "CH004"
      [] i = 5 -> "CH005"
      [] OTHER -> "CH006"

\* IntegrationChannel with the defaults of the model: no target endpoint,
\* transaction volume 0
IntegrationChannel(i) ==
    [channel_id         |-> ChannelIdOf(i),
     channel_type       |-> ChannelTypeSeq[((i - 1) % Len(ChannelTypeSeq)) + 1],
     target_endpoint    |-> None,
     transaction_volume |-> 0]

\* Customer with n channels and the defaults of the model: criticality
\* medium, no compliance requirement, no contact information
Customer(n) ==
    [customer_id             |-> "CUST001",
     name                    |-> "Test Corp",
     channels                |-> [i \in 1..n |-> IntegrationChannel(i)],
     business_criticality    |-> "medium",
     compliance_requirements |-> <<>>,
     has_contact             |-> FALSE]

Customers == {Customer(n) : n \in 0..MaxChannels}

\* channel_id arguments: omitted, a channel of some customer, an unknown one
ChannelIdArgs ==
    {NoChannelId, "CH-UNKNOWN"} \cup {ChannelIdOf(i) : i \in 1..MaxChannels}

\* plan ids: f"PLAN-{uuid.uuid4().hex[:8]}", a fresh id per call.  Every
\* handler reads and writes only the plan stored under the id it is given,
\* so the registry of the model holds the plans of this set: one
PlanIds == {"PLAN-1f0c9a3e"}

\* a plan id no call of create_migration_plan returns
UnknownPlanId == "UNKNOWN"

\* ------------------------------------------------------------ risk model
\* RiskCategory and the category weights of RiskAssessor.__init__, in
\* hundredths
RiskCategory == {"technical", "business", "compliance", "operational", "integration"}

\* weights that give every category the same share
risk_weights_uniform(category) == 20

risk_weights(category) ==
    CASE category = "technical"   -> 25
      [] category = "business"    -> 30
      [] category = "compliance"  -> 25
      [] category = "operational" -> 15
      [] category = "integration" -> 5
      [] OTHER                    -> 10

\* RiskSeverity (str, Enum)
RiskSeverity == {"low", "medium", "high", "critical"}

RiskFactor(category, severity, impact, likelihood) ==
    [category         |-> category,
     severity         |-> severity,
     impact_score     |-> impact,
     likelihood_score |-> likelihood]

\* a risk_score that adds the two scores (their mean, in tenths)
risk_score_mean(factor) == (factor.impact_score + factor.likelihood_score) * 5

\* RiskFactor.risk_score = impact * likelihood / 100, in tenths
risk_score(factor) == (factor.impact_score * factor.likelihood_score) \div 10

\* _determine_risk_level on a score in thousandths
_determine_risk_level(score) ==
    IF score >= 70000 THEN "critical"
    ELSE IF score >= 50000 THEN "high"
    ELSE IF score >= 30000 THEN "medium"
    ELSE "low"

\* _score_to_severity on a score in thousandths
_score_to_severity(score) == _determine_risk_level(score)

\* str.lower() on the criticalities of the model
lower(criticality) ==
    CASE criticality = "HIGH" -> "high"
      [] OTHER                -> criticality

\* complexity_map of _assess_channel_technical_risk, likelihood 50; the
\* severity is taken from the impact
_assess_channel_technical_risk(channel) ==
    LET t == channel.channel_type
        impact == CASE t = "edi"          -> 70
                    [] t = "thick_client" -> 65
                    [] t = "sftp"         -> 40
                    [] t = "soap_api"     -> 50
                    [] t = "rest_api"     -> 30
                    [] t = "web_portal"   -> 35
                    [] OTHER              -> 40
    IN  <<RiskFactor("technical", _score_to_severity(impact * 1000), impact, 50)>>

_assess_integration_complexity(channel) ==
    IF channel.target_endpoint = None
    THEN <<RiskFactor("integration", "high", 75, 100)>>
    ELSE <<>>

_assess_transaction_volume_risk(channel) ==
    IF channel.transaction_volume > 10000
    THEN <<RiskFactor("operational", "high", 70, 45)>>
    ELSE <<>>

_assess_business_criticality(customer) ==
    LET c == lower(customer.business_criticality)
        pair == CASE c = "low"      -> <<10, 30>>
                  [] c = "medium"   -> <<30, 50>>
                  [] c = "high"     -> <<60, 80>>
                  [] c = "critical" -> <<80, 95>>
                  [] OTHER          -> <<30, 50>>
    IN  <<RiskFactor("business", _score_to_severity(pair[1] * pair[2] * 10),
                     pair[1], pair[2])>>

\* an _assess_compliance whose factors after the first weigh less
_assess_compliance_diluted(customer) ==
    [i \in 1..Len(customer.compliance_requirements) |->
        RiskFactor("compliance", "high", IF i = 1 THEN 70 ELSE 10, 40)]

_assess_compliance(customer) ==
    [i \in 1..Len(customer.compliance_requirements) |->
        RiskFactor("compliance", "high", 70, 40)]

_assess_channel_complexity(customer) ==
    LET n == Len(customer.channels)
        has_legacy == \E i \in 1..n :
                          customer.channels[i].channel_type \in {"edi", "thick_client"}
    IN  (IF n > 5 THEN <<RiskFactor("integration", "high", 65, 60)>> ELSE <<>>)
        \o (IF has_legacy THEN <<RiskFactor("technical", "medium", 55, 50)>> ELSE <<>>)

_assess_operational_factors(customer) ==
    IF ~customer.has_contact
    THEN <<RiskFactor("operational", "medium", 40, 60)>>
    ELSE <<>>

RECURSIVE SumScores(_, _)
\* the sum of the risk scores (tenths) of the factors of one category
SumScores(factors, category) ==
    IF factors = <<>> THEN 0
    ELSE (IF Head(factors).category = category THEN risk_score(Head(factors)) ELSE 0)
         + SumScores(Tail(factors), category)

CountIn(factors, category) ==
    Cardinality({i \in 1..Len(factors) : factors[i].category = category})

RECURSIVE WeightedSumOfTotals(_, _)
\* a weighting of the total, not the mean, of the scores of each category
WeightedSumOfTotals(factors, categories) ==
    IF categories = {} THEN 0
    ELSE LET c == CHOOSE x \in categories : TRUE
         IN  SumScores(factors, c) * risk_weights(c)
             + WeightedSumOfTotals(factors, categories \ {c})

RECURSIVE WeightedSum(_, _)
\* the sum over the categories that have a factor of mean score x weight,
\* in thousandths
WeightedSum(factors, categories) ==
    IF categories = {} THEN 0
    ELSE LET c == CHOOSE x \in categories : TRUE
             n == CountIn(factors, c)
         IN  (IF n = 0 THEN 0
              ELSE (SumScores(factors, c) * risk_weights(c)) \div n)
             + WeightedSum(factors, categories \ {c})

\* _calculate_overall_risk, in thousandths
_calculate_overall_risk(factors) ==
    IF factors = <<>> THEN 0
    ELSE LET w == WeightedSum(factors, RiskCategory)
         IN  IF w > 100000 THEN 100000 ELSE w

\* assess_customer: the RiskAssessment without its id, recommendations and
\* timestamp
assess_customer(customer) ==
    LET factors == _assess_business_criticality(customer)
                   \o _assess_compliance(customer)
                   \o _assess_channel_complexity(customer)
                   \o _assess_operational_factors(customer)
        overall == _calculate_overall_risk(factors)
    IN  [risk_factors              |-> factors,
         overall_risk_score        |-> overall,
         risk_level                |-> _determine_risk_level(overall),
         migration_readiness_score |-> 100000 - overall]

\* assess_channel: the RiskAssessment without its id, recommendations and
\* timestamp
assess_channel(customer, channel) ==
    LET factors == _assess_channel_technical_risk(channel)
                   \o _assess_integration_complexity(channel)
                   \o _assess_transaction_volume_risk(channel)
        overall == _calculate_overall_risk(factors)
    IN  [risk_factors              |-> factors,
         overall_risk_score        |-> overall,
         risk_level                |-> _determine_risk_level(overall),
         migration_readiness_score |-> 100000 - overall]

\* format(x, ".1f"): a score in thousandths rounded to tenths, ties to even
FormatOneDecimal(milli) ==
    LET q == milli \div 100
        r == milli % 100
    IN  IF r > 50 \/ (r = 50 /\ q % 2 = 1) THEN q + 1 ELSE q

\* ------------------------------------------------------ playbook selector
\* len(PlaybookFactory.create_playbook(channel).generate_steps())
PlaybookStepCount(channel) ==
    LET t == channel.channel_type
    IN  CASE t = "edi"                                   -> 7
          [] t = "sftp"                                  -> 6
          [] t \in {"rest_api", "soap_api", "web_portal"} -> 6
          [] t = "thick_client"                          -> 6
          [] OTHER                                       -> 0

\* ------------------------------------------------------------------ state
\* migration_plans: MigrationOrchestrator.migration_plans, plan id -> plan
\* now:             the value datetime.utcnow() returns to the next handler
\* last:            the last call made on the orchestrator and how it ended
\* simulation:      the MigrationSimulation a caller of the SimulationEngine
\*                  holds (None before it has one)
\* active_cutovers: CutoverCoordinator.active_cutovers, cutover id -> cutover
\* assessments:     what the calls made on a RiskAssessor so far were given
\*                  and returned
\* run:             the run_migration call in progress on the migration
\*                  pipeline, or returned by it (None before the first)
\* requests:        the calls of the orchestrator that are running on the
\*                  worker threads of the API server, each with its
\*                  arguments, its position and its local variables (None
\*                  where calls are made one at a time)
VARIABLES migration_plans, now, last, simulation, active_cutovers, assessments, run,
          requests

vars == <<migration_plans, now, last, simulation, active_cutovers, assessments, run,
          requests>>

\* the state of the simulation engine's caller, of the cutover coordinator,
\* of the risk assessor's caller and of the migration pipeline, which no
\* handler of the orchestrator reads or writes, and the worker threads
engines == <<simulation, active_cutovers, assessments, run, requests>>

\* no simulation yet, the registry CutoverCoordinator.__init__ builds, no
\* assessment made and no migration run
EnginesIdle ==
    /\ simulation = None
    /\ active_cutovers = [c \in {} |-> None]
    /\ assessments = <<>>
    /\ run = None
    /\ requests = None

\* a call: the operation and the plan id it was given, how it ended ("ok",
\* or the kind of ValueError it raised), the channel_id and reason of a call
\* that returned, and what get_migration_status returned (<<>> otherwise)
Call(op, plan_id, channel_id, reason, outcome) ==
    [op         |-> op,
     plan_id    |-> plan_id,
     channel_id |-> IF outcome = "ok" THEN channel_id ELSE NoChannelId,
     reason     |-> IF outcome = "ok" THEN reason ELSE "",
     outcome    |-> outcome,
     value      |-> <<>>]

RECURSIVE NotesLogged(_)
\* the number of notes in the logs of a sequence of channel migrations
NotesLogged(cms) ==
    IF cms = <<>> THEN 0 ELSE Len(Head(cms).notes) + NotesLogged(Tail(cms))

\* the bound of the model on the notes logs: a call that appends k notes to
\* a plan is taken only while the plan holds fewer than MaxNotes - k notes
\* beyond the three that each channel migration is created with
RoomForNotes(plan, k) ==
    NotesLogged(plan.channel_migrations) + k
        <= 3 * Len(plan.channel_migrations) + MaxNotes

\* a plan is looked up with migration_plans.get(plan_id); `if not plan`
known(plan_id) == plan_id \in DOMAIN migration_plans

\* the channel migrations a call with this channel_id argument targets:
\* [cm for cm in plan.channel_migrations
\*     if channel_id is None or cm.channel_id == channel_id]
Targeted(plan, channel_id) ==
    {i \in 1..Len(plan.channel_migrations) :
        channel_id = NoChannelId \/ plan.channel_migrations[i].channel_id = channel_id}

\* ------------------------------------------------- create_migration_plan
\* the ChannelMigration built for one channel of the customer
NewChannelMigration(customer, channel) ==
    LET channel_risk == assess_channel(customer, channel)
    IN  [channel_id         |-> channel.channel_id,
         channel_type       |-> channel.channel_type,
         status             |-> "planning",
         risk_score         |-> channel_risk.overall_risk_score,
         playbook_id        |-> <<"PLAYBOOK-", channel.channel_type>>,
         simulation_passed  |-> FALSE,
         cutover_timestamp  |-> None,
         rollback_available |-> TRUE,
         notes              |->
             << <<"Migration playbook: steps", PlaybookStepCount(channel)>>,
                <<"Risk level", channel_risk.risk_level>>,
                <<"Readiness score",
                  FormatOneDecimal(channel_risk.migration_readiness_score)>> >>]

\* _calculate_timeline: planned_start and planned_completion from the
\* strategy and the number of channels, t the time utcnow() returns
_calculate_timeline(plan, customer, t) ==
    IF plan.migration_strategy = "phased"
    THEN LET total_weeks == Len(customer.channels) * 2
         IN  [plan EXCEPT !.planned_start = <<t + 7>>,
                          !.planned_completion = <<(t + 7) + 7 * total_weeks>>]
    ELSE IF plan.migration_strategy = "big-bang"
    THEN [plan EXCEPT !.planned_start = <<t + 14>>,
                      !.planned_completion = <<(t + 14) + 3>>]
    ELSE [plan EXCEPT !.planned_start = <<t + 7>>,
                      !.planned_completion = <<(t + 7) + 7 * 8>>]

\* the MigrationPlan create_migration_plan returns and stores
NewMigrationPlan(plan_id, customer, strategy, t) ==
    LET customer_risk == assess_customer(customer)
        migration_plan ==
            [plan_id            |-> plan_id,
             customer_id        |-> customer.customer_id,
             customer_name      |-> customer.name,
             overall_status     |-> "planning",
             channel_migrations |->
                 [i \in 1..Len(customer.channels) |->
                     NewChannelMigration(customer, customer.channels[i])],
             overall_risk_score |-> customer_risk.overall_risk_score,
             created_at         |-> t,
             planned_start      |-> None,
             planned_completion |-> None,
             actual_start       |-> None,
             actual_completion  |-> None,
             migration_strategy |-> strategy]
    IN  _calculate_timeline(migration_plan, customer, t)

\* a create_migration_plan that always draws the same plan id, and so stores
\* the new plan over the plan that already has it
create_migration_plan_same_id(ids, customer, strategy) ==
    /\ now < MaxClock
    /\ LET plan_id == CHOOSE id \in ids : TRUE
           plan    == NewMigrationPlan(plan_id, customer, strategy, now)
       IN
          /\ migration_plans' =
                 [p \in DOMAIN migration_plans \cup {plan_id} |->
                     IF p = plan_id THEN plan ELSE migration_plans[p]]
          /\ last' = Call("create_migration_plan", plan_id, NoChannelId, "", "ok")
    /\ now' = now + 1
    /\ UNCHANGED engines

\* create_migration_plan with the plan id uuid4 draws: an id of `ids` that no
\* stored plan has
create_migration_plan_from(ids, customer, strategy) ==
    /\ ids \ DOMAIN migration_plans # {}
    /\ now < MaxClock
    /\ LET plan_id == CHOOSE id \in ids : id \notin DOMAIN migration_plans
           plan    == NewMigrationPlan(plan_id, customer, strategy, now)
       IN
          /\ migration_plans' =
                 [p \in DOMAIN migration_plans \cup {plan_id} |->
                     IF p = plan_id THEN plan ELSE migration_plans[p]]
          /\ last' = Call("create_migration_plan", plan_id, NoChannelId, "", "ok")
    /\ now' = now + 1
    /\ UNCHANGED engines

create_migration_plan(customer, strategy) ==
    create_migration_plan_from(PlanIds, customer, strategy)

\* --------------------------------------------------------- run_simulations
\* a run_simulations that records a failed verdict for EDI channels
SimulationVerdictEdiFails(channel_migration) == channel_migration.channel_type # "edi"

\* the verdict recorded for a channel: `simulation_passed = True  # Simplified`
SimulationVerdict(channel_migration) == TRUE

\* the dictionary run_simulations returns: one entry per channel id
simulation_results(plan) ==
    [channel_id \in {plan.channel_migrations[i].channel_id :
                        i \in DOMAIN plan.channel_migrations} |->
        [status       |-> "passed",
         success_rate |-> Rate(985, 10),
         details      |-> "All test scenarios passed validation"]]

\* the plan after the body of run_simulations
SimulatedPlan(plan) ==
    LET cms == [i \in 1..Len(plan.channel_migrations) |->
                   [plan.channel_migrations[i] EXCEPT
                       !.simulation_passed = SimulationVerdict(plan.channel_migrations[i]),
                       !.status = "ready"]]
        all_passed == \A i \in 1..Len(cms) : cms[i].simulation_passed
    IN  [plan EXCEPT !.channel_migrations = cms,
                     !.overall_status = IF all_passed THEN "ready" ELSE "simulation"]

run_simulations(plan_id) ==
    /\ IF ~known(plan_id)
       THEN /\ migration_plans' = migration_plans
            /\ last' = Call("run_simulations", plan_id, NoChannelId, "", "not_found")
       ELSE /\ migration_plans' =
                   [migration_plans EXCEPT ![plan_id] = SimulatedPlan(@)]
            /\ last' = [Call("run_simulations", plan_id, NoChannelId, "", "ok")
                           EXCEPT !.value = <<simulation_results(migration_plans[plan_id])>>]
    /\ now' = now
    /\ UNCHANGED engines

\* ------------------------------------------------------- execute_migration
\* _execute_channel_migration: in_progress, cutover stamp, completed, note
_execute_channel_migration(channel_migration, t) ==
    [channel_migration EXCEPT
        !.status = "completed",
        !.cutover_timestamp = <<t>>,
        !.notes = Append(@, <<"Migration completed at", t>>)]

\* an execute_migration that decides completion on the migrated channels only
ExecutedPlanTargetedOnly(plan, channel_id, t) ==
    LET channels_to_migrate == Targeted(plan, channel_id)
        cms == [i \in 1..Len(plan.channel_migrations) |->
                   IF i \in channels_to_migrate
                   THEN _execute_channel_migration(plan.channel_migrations[i], t)
                   ELSE plan.channel_migrations[i]]
        all_completed == \A i \in channels_to_migrate : cms[i].status = "completed"
    IN  [plan EXCEPT
            !.channel_migrations = cms,
            !.actual_start = <<t>>,
            !.overall_status = IF all_completed THEN "completed" ELSE "in_progress",
            !.actual_completion = IF all_completed THEN <<t>> ELSE @]

\* an execute_migration that leaves a plan ready while channels remain
ExecutedPlanStayingReady(plan, channel_id, t) ==
    LET channels_to_migrate == Targeted(plan, channel_id)
        cms == [i \in 1..Len(plan.channel_migrations) |->
                   IF i \in channels_to_migrate
                   THEN _execute_channel_migration(plan.channel_migrations[i], t)
                   ELSE plan.channel_migrations[i]]
        all_completed == \A i \in 1..Len(cms) : cms[i].status = "completed"
    IN  [plan EXCEPT
            !.channel_migrations = cms,
            !.actual_start = <<t>>,
            !.overall_status = IF all_completed THEN "completed" ELSE "ready",
            !.actual_completion = IF all_completed THEN <<t>> ELSE @]

\* the plan after the body of execute_migration on a ready plan
ExecutedPlan(plan, channel_id, t) ==
    LET channels_to_migrate == Targeted(plan, channel_id)
        cms == [i \in 1..Len(plan.channel_migrations) |->
                   IF i \in channels_to_migrate
                   THEN _execute_channel_migration(plan.channel_migrations[i], t)
                   ELSE plan.channel_migrations[i]]
        all_completed == \A i \in 1..Len(cms) : cms[i].status = "completed"
    IN  [plan EXCEPT
            !.channel_migrations = cms,
            !.actual_start = <<t>>,
            !.overall_status = IF all_completed THEN "completed" ELSE "in_progress",
            !.actual_completion = IF all_completed THEN <<t>> ELSE @]

\* an execute_migration with one check for a missing and for a non-ready plan
ExecuteOutcomeMerged(plans, plan_id) ==
    IF plan_id \notin DOMAIN plans \/ plans[plan_id].overall_status # "ready"
    THEN "invalid_state"
    ELSE "ok"

\* an execute_migration that does not look at the status of the plan
ExecuteOutcomeUnguarded(plans, plan_id) ==
    IF plan_id \notin DOMAIN plans THEN "not_found" ELSE "ok"

\* how execute_migration ends: the ValueError it raises, or "ok"
ExecuteOutcome(plans, plan_id) ==
    IF plan_id \notin DOMAIN plans THEN "not_found"
    ELSE IF plans[plan_id].overall_status # "ready" THEN "invalid_state"
    ELSE "ok"

\* an execute_migration that starts the plan before it checks that it is ready
ExecuteEffectStartsFirst(plans, plan_id, channel_id, t) ==
    IF ExecuteOutcome(plans, plan_id) = "ok"
    THEN [plans EXCEPT ![plan_id] = ExecutedPlan(@, channel_id, t)]
    ELSE IF plan_id \in DOMAIN plans
    THEN [plans EXCEPT ![plan_id].overall_status = "in_progress",
                       ![plan_id].actual_start = <<t>>]
    ELSE plans

\* the registry execute_migration leaves
ExecuteEffect(plans, plan_id, channel_id, t) ==
    IF ExecuteOutcome(plans, plan_id) = "ok"
    THEN [plans EXCEPT ![plan_id] = ExecutedPlan(@, channel_id, t)]
    ELSE plans

execute_migration(plan_id, channel_id) ==
    LET outcome == ExecuteOutcome(migration_plans, plan_id)
    IN  /\ outcome = "ok" =>
              /\ now < MaxClock
              /\ RoomForNotes(migration_plans[plan_id],
                              Cardinality(Targeted(migration_plans[plan_id], channel_id)))
        /\ migration_plans' = ExecuteEffect(migration_plans, plan_id, channel_id, now)
        /\ now' = IF outcome = "ok" THEN now + 1 ELSE now
        /\ UNCHANGED engines
        /\ last' = Call("execute_migration", plan_id, channel_id, "", outcome)

\* ------------------------------------------------------ rollback_migration
\* a rollback loop body that does not look at rollback_available
RolledBackChannelIgnoringFlag(channel_migration, reason) ==
    [channel_migration EXCEPT
        !.status = "rolled_back",
        !.notes = Append(@, <<"Rolled back", reason>>)]

\* the loop body of rollback_migration for one targeted channel
RolledBackChannel(channel_migration, reason) ==
    IF channel_migration.rollback_available
    THEN [channel_migration EXCEPT
             !.status = "rolled_back",
             !.notes = Append(@, <<"Rolled back", reason>>)]
    ELSE [channel_migration EXCEPT
             !.notes = Append(@, <<"Rollback not available", reason>>)]

\* a rollback_migration that leaves the overall status of the plan alone
RolledBackPlanKeepingStatus(plan, channel_id, reason) ==
    LET channels_to_rollback == Targeted(plan, channel_id)
    IN  [plan EXCEPT
            !.channel_migrations =
                [i \in 1..Len(plan.channel_migrations) |->
                    IF i \in channels_to_rollback
                    THEN RolledBackChannel(plan.channel_migrations[i], reason)
                    ELSE plan.channel_migrations[i]]]

\* the plan after the body of rollback_migration
RolledBackPlan(plan, channel_id, reason) ==
    LET channels_to_rollback == Targeted(plan, channel_id)
        cms == [i \in 1..Len(plan.channel_migrations) |->
                   IF i \in channels_to_rollback
                   THEN RolledBackChannel(plan.channel_migrations[i], reason)
                   ELSE plan.channel_migrations[i]]
        all_rolled_back == \A i \in channels_to_rollback : cms[i].status = "rolled_back"
    IN  [plan EXCEPT
            !.channel_migrations = cms,
            !.overall_status = IF all_rolled_back THEN "rolled_back" ELSE @]

rollback_migration(plan_id, channel_id, reason) ==
    /\ IF ~known(plan_id)
       THEN /\ migration_plans' = migration_plans
            /\ last' = Call("rollback_migration", plan_id, channel_id, reason, "not_found")
       ELSE /\ RoomForNotes(migration_plans[plan_id],
                            Cardinality(Targeted(migration_plans[plan_id], channel_id)))
            /\ migration_plans' =
                   [migration_plans EXCEPT ![plan_id] = RolledBackPlan(@, channel_id, reason)]
            /\ last' = Call("rollback_migration", plan_id, channel_id, reason, "ok")
    /\ now' = now
    /\ UNCHANGED engines

\* ---------------------------------------------------- get_migration_status
\* weights that count a completed channel as one still in progress
status_weights_short(status) ==
    CASE status = "planning"        -> 10
      [] status = "risk_assessment" -> 20
      [] status = "simulation"      -> 40
      [] status = "ready"           -> 60
      [] status = "in_progress"     -> 80
      [] status = "completed"       -> 80
      [] OTHER                      -> 0

\* status_weights of _calculate_progress
status_weights(status) ==
    CASE status = "pending"         -> 0
      [] status = "planning"        -> 10
      [] status = "risk_assessment" -> 20
      [] status = "simulation"      -> 40
      [] status = "ready"           -> 60
      [] status = "in_progress"     -> 80
      [] status = "completed"       -> 100
      [] status = "failed"          -> 0
      [] status = "rolled_back"     -> 0
      [] OTHER                      -> 0

RECURSIVE total_progress(_)
total_progress(cms) ==
    IF cms = <<>> THEN 0
    ELSE status_weights(Head(cms).status) + total_progress(Tail(cms))

\* a _calculate_progress that returns the sum of the weights undivided
_calculate_progress_undivided(plan) ==
    [num |-> total_progress(plan.channel_migrations), den |-> 1]

\* _calculate_progress as the fraction total_progress / len(channel_migrations),
\* 0 for a plan without channels
_calculate_progress(plan) ==
    IF plan.channel_migrations = <<>>
    THEN [num |-> 0, den |-> 1]
    ELSE [num |-> total_progress(plan.channel_migrations),
          den |-> Len(plan.channel_migrations)]

\* the dictionary get_migration_status returns
StatusSnapshot(plan) ==
    [plan_id             |-> plan.plan_id,
     customer_id         |-> plan.customer_id,
     customer_name       |-> plan.customer_name,
     overall_status      |-> plan.overall_status,
     overall_risk_score  |-> plan.overall_risk_score,
     progress_percentage |-> _calculate_progress(plan),
     planned_start       |-> plan.planned_start,
     planned_completion  |-> plan.planned_completion,
     actual_start        |-> plan.actual_start,
     actual_completion   |-> plan.actual_completion,
     channels            |->
         [i \in 1..Len(plan.channel_migrations) |->
             [channel_id        |-> plan.channel_migrations[i].channel_id,
              channel_type      |-> plan.channel_migrations[i].channel_type,
              status            |-> plan.channel_migrations[i].status,
              risk_score        |-> plan.channel_migrations[i].risk_score,
              simulation_passed |-> plan.channel_migrations[i].simulation_passed,
              cutover_timestamp |-> plan.channel_migrations[i].cutover_timestamp]]]

\* a get_migration_status that writes the status it derives back to the plan
get_migration_status_writing(plan_id) ==
    /\ IF ~known(plan_id)
       THEN /\ last' = Call("get_migration_status", plan_id, NoChannelId, "", "not_found")
            /\ migration_plans' = migration_plans
       ELSE /\ last' = [Call("get_migration_status", plan_id, NoChannelId, "", "ok")
                           EXCEPT !.value = <<StatusSnapshot(migration_plans[plan_id])>>]
            /\ migration_plans' =
                   [migration_plans EXCEPT ![plan_id].overall_status =
                       IF \A i \in DOMAIN migration_plans[plan_id].channel_migrations :
                              migration_plans[plan_id].channel_migrations[i].status
                                  = "completed"
                       THEN "completed" ELSE @]
    /\ now' = now
    /\ UNCHANGED engines

get_migration_status(plan_id) ==
    /\ IF ~known(plan_id)
       THEN last' = Call("get_migration_status", plan_id, NoChannelId, "", "not_found")
       ELSE last' = [Call("get_migration_status", plan_id, NoChannelId, "", "ok")
                        EXCEPT !.value = <<StatusSnapshot(migration_plans[plan_id])>>]
    /\ migration_plans' = migration_plans
    /\ now' = now
    /\ UNCHANGED engines

\* ---------------------------------------------------------- specification
\* MigrationOrchestrator.__init__: an empty registry
Init ==
    /\ migration_plans = [p \in {} |-> None]
    /\ now = 0
    /\ last = Call("__init__", UnknownPlanId, NoChannelId, "", "ok")
    /\ EnginesIdle

\* plan_id arguments: the id of a stored plan, or an unknown one
PlanIdArgs == DOMAIN migration_plans \cup {UnknownPlanId}

Next ==
    \/ \E customer \in Customers, strategy \in Strategies :
           create_migration_plan(customer, strategy)
    \/ \E plan_id \in PlanIdArgs : run_simulations(plan_id)
    \/ \E plan_id \in PlanIdArgs, channel_id \in ChannelIdArgs :
           execute_migration(plan_id, channel_id)
    \/ \E plan_id \in PlanIdArgs, channel_id \in ChannelIdArgs, reason \in Reasons :
           rollback_migration(plan_id, channel_id, reason)
    \/ \E plan_id \in PlanIdArgs : get_migration_status(plan_id)

Spec == Init /\ [][Next]_vars

\* ------------------------------------------- rollback_migration on its own
\* rollback_migration as a function of the plan it is given.  The
\* orchestrator creates every channel migration with rollback_available set
\* and never clears it; the field is an ordinary attribute of ChannelMigration
\* (default True), so the plans here are plans at three stages of their life
\* (created, simulated, executed) whose flags are drawn freely.
PlanAtStage(customer, stage) ==
    LET created == NewMigrationPlan(CHOOSE id \in PlanIds : TRUE, customer, "phased", 0)
    IN  CASE stage = "planning"  -> created
          [] stage = "ready"     -> SimulatedPlan(created)
          [] stage = "completed" -> ExecutedPlan(SimulatedPlan(created), NoChannelId, 1)

WithRollbackAvailable(plan, flags) ==
    [plan EXCEPT !.channel_migrations =
        [i \in DOMAIN plan.channel_migrations |->
            [plan.channel_migrations[i] EXCEPT !.rollback_available = flags[i]]]]

RollbackInit ==
    /\ \E customer \in Customers, stage \in {"planning", "ready", "completed"} :
           \E flags \in [1..Len(customer.channels) -> BOOLEAN] :
               migration_plans =
                   [p \in {CHOOSE id \in PlanIds : TRUE} |->
                       WithRollbackAvailable(PlanAtStage(customer, stage), flags)]
    /\ now = MaxClock
    /\ last = Call("__init__", UnknownPlanId, NoChannelId, "", "ok")
    /\ EnginesIdle

RollbackNext ==
    \E plan_id \in PlanIdArgs, channel_id \in ChannelIdArgs, reason \in Reasons :
        rollback_migration(plan_id, channel_id, reason)

RollbackSpec == RollbackInit /\ [][RollbackNext]_vars

\* ----------------------------------------- a registry of more than one plan
\* the plan ids of an orchestrator that is asked for two plans
MorePlanIds == PlanIds \cup {"PLAN-7b2e4d10"}

CreateNext ==
    \/ \E customer \in Customers, strategy \in Strategies :
           create_migration_plan_from(MorePlanIds, customer, strategy)
    \/ \E plan_id \in PlanIdArgs : get_migration_status(plan_id)

CreateSpec == Init /\ [][CreateNext]_vars

\* ------------------------------------------- get_migration_status on its own
\* _calculate_progress as a function of the plan it is given: status is an
\* ordinary attribute of ChannelMigration, so the plans here carry any
\* combination of the nine MigrationStatus values
WithStatus(plan, statuses) ==
    [plan EXCEPT !.channel_migrations =
        [i \in DOMAIN plan.channel_migrations |->
            [plan.channel_migrations[i] EXCEPT !.status = statuses[i]]]]

ProgressInit ==
    /\ \E customer \in Customers :
           \E statuses \in [1..Len(customer.channels) -> MigrationStatus] :
               migration_plans =
                   [p \in {CHOOSE id \in PlanIds : TRUE} |->
                       WithStatus(PlanAtStage(customer, "planning"), statuses)]
    /\ now = MaxClock
    /\ last = Call("__init__", UnknownPlanId, NoChannelId, "", "ok")
    /\ EnginesIdle

ProgressNext == \E plan_id \in PlanIdArgs : get_migration_status(plan_id)

ProgressSpec == ProgressInit /\ [][ProgressNext]_vars

\* ========================================================= SimulationEngine
\* SimulationStatus (str, Enum)
SimulationStatus == {"pending", "running", "passed", "failed", "aborted"}

\* test_data (Dict[str, Any]) by what the engine does with it: its content,
\* and whether json.dumps can encode it (it raises TypeError on a value such
\* as a datetime)
TestData(content, encodable) == [content |-> content, encodable |-> encodable]

\* _initialize_scenario_templates: the names of the templates of a channel
\* type, each with test data of literals
scenario_templates(channel_type) ==
    CASE channel_type = "edi"          -> <<"EDI 850 Purchase Order", "EDI 856 ASN">>
      [] channel_type = "sftp"         -> <<"File Upload", "File Download">>
      [] channel_type = "rest_api"     -> <<"GET Request", "POST Request">>
      [] channel_type = "soap_api"     -> <<"SOAP Service Call">>
      [] channel_type = "thick_client" -> <<"Login Test", "Data Sync Test">>
      [] channel_type = "web_portal"   -> <<"Portal Login">>
      [] OTHER                         -> <<>>

TestScenario(scenario_id, name, channel_type, test_data) ==
    [scenario_id  |-> scenario_id,
     name         |-> name,
     channel_type |-> channel_type,
     test_data    |-> test_data]

_generate_scenarios(channel) ==
    LET templates == scenario_templates(channel.channel_type)
    IN  [i \in 1..Len(templates) |->
            TestScenario(<<"SCEN-", channel.channel_id, i>>, templates[i],
                         channel.channel_type, TestData(templates[i], TRUE))]

\* the channels simulations are created for: one of each channel type
SimulationChannels ==
    {[IntegrationChannel(1) EXCEPT !.channel_type = t] : t \in ChannelType}

\* the scenarios a caller builds a simulation from: one whose test data are
\* literals, one whose test data hold a value json.dumps cannot encode
CallerScenarios ==
    {TestScenario("SCEN-A", "Order lookup", "rest_api", TestData("order", TRUE)),
     TestScenario("SCEN-B", "Order dated", "rest_api", TestData("datetime", FALSE))}

CallerScenarioLists ==
    UNION {[1..n -> CallerScenarios] : n \in 0..MaxScenarios}

\* the success rates a caller builds a simulation with: 0.0 (the default),
\* 94.9, 95.0, 100.0
CallerRates == {Rate(0, 1), Rate(949, 10), Rate(95, 1), Rate(100, 1)}

\* a call on the engine or the model classes and how it ended ("ok", or the
\* exception it raised)
SimCall(op, outcome) == [op |-> op, outcome |-> outcome]

\* MigrationSimulation(...) with the defaults of the class for the fields a
\* caller leaves out
MigrationSimulationObject(simulation_id, channel_id, scenarios, overall_status, success_rate) ==
    [simulation_id  |-> simulation_id,
     customer_id    |-> "CUST001",
     channel_id     |-> channel_id,
     scenarios      |-> scenarios,
     results        |-> <<>>,
     overall_status |-> overall_status,
     success_rate   |-> success_rate,
     started_at     |-> None,
     completed_at   |-> None]

\* a passed property that looks at the status alone
passed_by_status(sim) == sim.overall_status = "passed"

\* MigrationSimulation.passed
passed(sim) == sim.overall_status = "passed" /\ AtLeast(sim.success_rate, 95)

\* a caller builds a simulation of its own
MigrationSimulation(scenarios, overall_status, success_rate) ==
    /\ simulation' = MigrationSimulationObject("SIM-caller", "CH001", scenarios,
                                                overall_status, success_rate)
    /\ last' = SimCall("MigrationSimulation", "ok")
    /\ UNCHANGED <<migration_plans, now, active_cutovers, assessments, run, requests>>

create_simulation(channel) ==
    /\ simulation' = MigrationSimulationObject("SIM-3c9d2a71", channel.channel_id,
                                                _generate_scenarios(channel),
                                                "pending", Rate(0, 1))
    /\ last' = SimCall("create_simulation", "ok")
    /\ UNCHANGED <<migration_plans, now, active_cutovers, assessments, run, requests>>

_simulate_legacy_response(scenario) ==
    [status |-> "success", data |-> scenario.test_data, source |-> "legacy"]

_simulate_modern_response(scenario) ==
    [status |-> "success", data |-> scenario.test_data, source |-> "modern"]

\* json.dumps(data, sort_keys=True) of data it can encode
json_dumps(data) == data.content

\* a comparison that looks at the source field of the two outputs as well
_compare_outputs_with_source(legacy, modern) ==
    (IF legacy.status # modern.status THEN <<"Status mismatch">> ELSE <<>>)
    \o (IF json_dumps(legacy.data) # json_dumps(modern.data)
        THEN <<"Data structure differences detected">> ELSE <<>>)
    \o (IF legacy.source # modern.source THEN <<"Source mismatch">> ELSE <<>>)

\* _compare_outputs of outputs whose data json.dumps can encode
_compare_outputs(legacy, modern) ==
    (IF legacy.status # modern.status THEN <<"Status mismatch">> ELSE <<>>)
    \o (IF json_dumps(legacy.data) # json_dumps(modern.data)
        THEN <<"Data structure differences detected">> ELSE <<>>)

\* _execute_scenario raises the TypeError of json.dumps out of _compare_outputs
Raises(scenario) == ~scenario.test_data.encodable

_execute_scenario(scenario) ==
    LET legacy_output == _simulate_legacy_response(scenario)
        modern_output == _simulate_modern_response(scenario)
        differences   == _compare_outputs(legacy_output, modern_output)
        success       == Len(differences) = 0
    IN  [scenario_id |-> scenario.scenario_id,
         status      |-> IF success THEN "passed" ELSE "failed",
         success     |-> success,
         differences |-> differences,
         errors      |-> IF ~success
                         THEN << <<"Found differences", Len(differences)>> >>
                         ELSE <<>>,
         warnings    |-> <<>>]

\* execute_simulation: an exception of a scenario leaves the loop and the
\* handler after lines 71-72; otherwise lines 84-95 run
ExecutedSimulation(sim, t) ==
    IF \E i \in DOMAIN sim.scenarios : Raises(sim.scenarios[i])
    THEN [sim EXCEPT !.overall_status = "running", !.started_at = <<t>>]
    ELSE LET results == [i \in DOMAIN sim.scenarios |-> _execute_scenario(sim.scenarios[i])]
             successful_tests == Cardinality({i \in DOMAIN results : results[i].success})
             success_rate ==
                 IF sim.scenarios # <<>>
                 THEN Rate(successful_tests * 100, Len(sim.scenarios))
                 ELSE sim.success_rate
         IN  [sim EXCEPT !.started_at = <<t>>,
                         !.results = results,
                         !.completed_at = <<t>>,
                         !.success_rate = success_rate,
                         !.overall_status =
                             IF AtLeast(success_rate, 95) THEN "passed" ELSE "failed"]

execute_simulation ==
    /\ simulation # None
    /\ simulation' = ExecutedSimulation(simulation, now)
    /\ last' = SimCall("execute_simulation",
                       IF \E i \in DOMAIN simulation.scenarios :
                              Raises(simulation.scenarios[i])
                       THEN "TypeError" ELSE "ok")
    /\ UNCHANGED <<migration_plans, now, active_cutovers, assessments, run, requests>>

\* SimulationEngine.__init__, and no plan in the orchestrator's registry
SimInit ==
    /\ migration_plans = [p \in {} |-> None]
    /\ now = 0
    /\ last = SimCall("__init__", "ok")
    /\ EnginesIdle

SimNext ==
    \/ \E channel \in SimulationChannels : create_simulation(channel)
    \/ \E scenarios \in CallerScenarioLists, overall_status \in SimulationStatus,
          success_rate \in CallerRates :
           MigrationSimulation(scenarios, overall_status, success_rate)
    \/ execute_simulation

SimSpec == SimInit /\ [][SimNext]_vars

\* ======================================================= CutoverCoordinator
\* CutoverStrategy (str, Enum)
CutoverStrategy == {"immediate", "gradual", "parallel", "canary"}

\* a list of step dictionaries, all pending; the keys started_at and
\* completed_at, which execute_cutover_step adds, are None until then
StepList(names) ==
    [i \in 1..Len(names) |->
        [step         |-> i,
         name         |-> names[i],
         status       |-> "pending",
         started_at   |-> None,
         completed_at |-> None]]

\* a _generate_cutover_steps whose gradual script ends after the full routing
_generate_cutover_steps_unvalidated(strategy) ==
    IF strategy = "immediate"
    THEN StepList(<<"Pre-cutover validation", "Switch traffic", "Validate operation">>)
    ELSE IF strategy = "gradual"
    THEN StepList(<<"Route 10% traffic", "Monitor 10% traffic", "Route 50% traffic",
                    "Monitor 50% traffic", "Route 100% traffic">>)
    ELSE IF strategy = "parallel"
    THEN StepList(<<"Start parallel run", "Compare outputs", "Build confidence",
                    "Switch to modern", "Stop legacy processing">>)
    ELSE StepList(<<"Select canary users", "Migrate canary users", "Monitor canary",
                    "Expand to all users", "Final validation">>)

_generate_cutover_steps(strategy) ==
    IF strategy = "immediate"
    THEN StepList(<<"Pre-cutover validation", "Switch traffic", "Validate operation">>)
    ELSE IF strategy = "gradual"
    THEN StepList(<<"Route 10% traffic", "Monitor 10% traffic", "Route 50% traffic",
                    "Monitor 50% traffic", "Route 100% traffic", "Final validation">>)
    ELSE IF strategy = "parallel"
    THEN StepList(<<"Start parallel run", "Compare outputs", "Build confidence",
                    "Switch to modern", "Stop legacy processing">>)
    ELSE StepList(<<"Select canary users", "Migrate canary users", "Monitor canary",
                    "Expand to all users", "Final validation">>)

\* f"CUTOVER-{channel_migration.channel_id}"
CutoverIdOf(channel_id) == <<"CUTOVER-", channel_id>>

\* the metrics of a cutover: error_rate in tenths of a percent, latency_ms in
\* tenths of a millisecond
Metrics(error_rate, transaction_count, latency_ms) ==
    [error_rate        |-> error_rate,
     transaction_count |-> transaction_count,
     latency_ms        |-> latency_ms]

\* the cutover_plan dictionary of initiate_cutover; the keys completed_at and
\* rollback, which later calls add, are None until then
CutoverPlan(channel_migration, strategy, t) ==
    [cutover_id   |-> CutoverIdOf(channel_migration.channel_id),
     channel_id   |-> channel_migration.channel_id,
     strategy     |-> strategy,
     started_at   |-> t,
     status       |-> "initiated",
     steps        |-> _generate_cutover_steps(strategy),
     current_step |-> 0,
     metrics      |-> Metrics(0, 0, 0),
     completed_at |-> None,
     rollback     |-> None]

\* a call on the coordinator: the operation, the cutover id it was given (or
\* built), how it ended ("ok" or "not_found") and, for monitor_cutover and
\* rollback_cutover, the dictionary it returned
CutoverCall(op, cutover_id, outcome, value) ==
    [op |-> op, cutover_id |-> cutover_id, outcome |-> outcome, value |-> value]

\* the customer whose plan, simulated and ready, is cut over channel by channel
CutoverCustomer == Customer(2)

\* the channel migrations handed to initiate_cutover
CutoverChannelMigrations ==
    LET plan == PlanAtStage(CutoverCustomer, "ready")
    IN  {plan.channel_migrations[i] : i \in DOMAIN plan.channel_migrations}

\* a cutover id no call of initiate_cutover builds
UnknownCutoverId == <<"CUTOVER-", "CH-UNKNOWN">>

\* cutover_id arguments: the id of a registered cutover, or an unknown one
CutoverIdArgs == DOMAIN active_cutovers \cup {UnknownCutoverId}

\* the cutover registered under the id before a call, if there was one
Replaced(cutover_id) ==
    IF cutover_id \in DOMAIN active_cutovers
    THEN <<active_cutovers[cutover_id]>> ELSE <<>>

\* an initiate_cutover that keeps the cutover a channel already has
initiate_cutover_keeping(channel_migration, strategy) ==
    /\ LET cutover_plan == CutoverPlan(channel_migration, strategy, now)
           cutover_id   == cutover_plan.cutover_id
       IN  /\ active_cutovers' =
                  [c \in DOMAIN active_cutovers \cup {cutover_id} |->
                      IF c \in DOMAIN active_cutovers
                      THEN active_cutovers[c] ELSE cutover_plan]
           /\ last' = CutoverCall("initiate_cutover", cutover_id, "ok",
                                  Replaced(cutover_id))
    /\ UNCHANGED <<migration_plans, now, simulation, assessments, run, requests>>

\* initiate_cutover; the call record keeps the cutover it replaced
initiate_cutover(channel_migration, strategy) ==
    /\ LET cutover_plan == CutoverPlan(channel_migration, strategy, now)
           cutover_id   == cutover_plan.cutover_id
       IN  /\ active_cutovers' =
                  [c \in DOMAIN active_cutovers \cup {cutover_id} |->
                      IF c = cutover_id THEN cutover_plan ELSE active_cutovers[c]]
           /\ last' = CutoverCall("initiate_cutover", cutover_id, "ok",
                                  Replaced(cutover_id))
    /\ UNCHANGED <<migration_plans, now, simulation, assessments, run, requests>>

\* the cutover after lines 80-107 of execute_cutover_step
ExecutedStep(cutover, t) ==
    IF cutover.current_step >= Len(cutover.steps)
    THEN [cutover EXCEPT !.status = "completed", !.completed_at = <<t>>]
    ELSE LET i == cutover.current_step + 1
             stepped ==
                 [cutover EXCEPT !.steps[i].status = "completed",
                                 !.steps[i].started_at = <<t>>,
                                 !.steps[i].completed_at = <<t>>,
                                 !.current_step = @ + 1]
         IN  IF stepped.current_step >= Len(stepped.steps)
             THEN [stepped EXCEPT !.status = "completed", !.completed_at = <<t>>]
             ELSE [stepped EXCEPT !.status = "in_progress"]

execute_cutover_step(cutover_id) ==
    /\ IF cutover_id \notin DOMAIN active_cutovers
       THEN /\ last' = CutoverCall("execute_cutover_step", cutover_id, "not_found", <<>>)
            /\ active_cutovers' = active_cutovers
       ELSE /\ last' = CutoverCall("execute_cutover_step", cutover_id, "ok", <<>>)
            /\ active_cutovers' =
                   [active_cutovers EXCEPT ![cutover_id] = ExecutedStep(@, now)]
    /\ UNCHANGED <<migration_plans, now, simulation, assessments, run, requests>>

\* a health check that is degraded from the thresholds on
HealthReportFromThreshold(cutover) ==
    LET metrics == cutover.metrics
        error   == metrics.error_rate >= 50
        latency == metrics.latency_ms >= 10000
    IN  [cutover_id    |-> cutover.cutover_id,
         status        |-> cutover.status,
         health_status |-> IF error \/ latency THEN "degraded" ELSE "healthy",
         metrics       |-> metrics,
         warnings      |->
             (IF error THEN <<"Error rate above threshold">> ELSE <<>>)
             \o (IF latency THEN <<"Latency above threshold">> ELSE <<>>),
         step_progress |-> <<cutover.current_step, "/", Len(cutover.steps)>>]

\* the dictionary monitor_cutover returns: error_rate > 5.0, latency_ms > 1000.0
HealthReport(cutover) ==
    LET metrics == cutover.metrics
        error   == metrics.error_rate > 50
        latency == metrics.latency_ms > 10000
    IN  [cutover_id    |-> cutover.cutover_id,
         status        |-> cutover.status,
         health_status |-> IF error \/ latency THEN "degraded" ELSE "healthy",
         metrics       |-> metrics,
         warnings      |->
             (IF error THEN <<"Error rate above threshold">> ELSE <<>>)
             \o (IF latency THEN <<"Latency above threshold">> ELSE <<>>),
         step_progress |-> <<cutover.current_step, "/", Len(cutover.steps)>>]

monitor_cutover(cutover_id) ==
    /\ IF cutover_id \notin DOMAIN active_cutovers
       THEN last' = CutoverCall("monitor_cutover", cutover_id, "not_found", <<>>)
       ELSE last' = CutoverCall("monitor_cutover", cutover_id, "ok",
                                <<HealthReport(active_cutovers[cutover_id])>>)
    /\ active_cutovers' = active_cutovers
    /\ UNCHANGED <<migration_plans, now, simulation, assessments, run, requests>>

\* the rollback dictionary of rollback_cutover
Rollback(cutover_id, reason, t) ==
    [cutover_id            |-> cutover_id,
     rollback_initiated_at |-> t,
     reason                |-> reason,
     status                |-> "completed",
     steps                 |-> <<"Stop routing traffic to modern platform",
                                 "Restore routing to legacy platform",
                                 "Verify legacy system operational",
                                 "Capture diagnostic logs",
                                 "Notify stakeholders">>,
     completed_at          |-> <<t>>]

\* a rollback_cutover that registers the rollback of a cutover it does not find
RolledBackRegistryOfAny(cutovers, cutover_id, reason, t) ==
    IF cutover_id \notin DOMAIN cutovers
    THEN [c \in DOMAIN cutovers \cup {cutover_id} |->
             IF c = cutover_id
             THEN [status |-> "rolled_back",
                   rollback |-> <<Rollback(cutover_id, reason, t)>>]
             ELSE cutovers[c]]
    ELSE [cutovers EXCEPT ![cutover_id].status = "rolled_back",
                          ![cutover_id].rollback = <<Rollback(cutover_id, reason, t)>>]

\* the registry after rollback_cutover: the cutover rolled_back, with the
\* rollback under its key "rollback"; as it was for an id it does not hold
RolledBackRegistry(cutovers, cutover_id, reason, t) ==
    IF cutover_id \notin DOMAIN cutovers
    THEN cutovers
    ELSE [cutovers EXCEPT ![cutover_id].status = "rolled_back",
                          ![cutover_id].rollback = <<Rollback(cutover_id, reason, t)>>]

rollback_cutover(cutover_id, reason) ==
    /\ IF cutover_id \notin DOMAIN active_cutovers
       THEN last' = CutoverCall("rollback_cutover", cutover_id, "not_found", <<>>)
       ELSE last' = CutoverCall("rollback_cutover", cutover_id, "ok",
                                <<Rollback(cutover_id, reason, now)>>)
    /\ active_cutovers' = RolledBackRegistry(active_cutovers, cutover_id, reason, now)
    /\ UNCHANGED <<migration_plans, now, simulation, assessments, run, requests>>

\* CutoverCoordinator.__init__, beside an orchestrator that holds the ready
\* plan of the customer
CutoverInit ==
    /\ migration_plans =
           [p \in {CHOOSE id \in PlanIds : TRUE} |-> PlanAtStage(CutoverCustomer, "ready")]
    /\ now = MaxClock
    /\ last = CutoverCall("__init__", UnknownCutoverId, "ok", <<>>)
    /\ EnginesIdle

CutoverNext ==
    \/ \E channel_migration \in CutoverChannelMigrations, strategy \in CutoverStrategy :
           initiate_cutover(channel_migration, strategy)
    \/ \E cutover_id \in CutoverIdArgs : execute_cutover_step(cutover_id)
    \/ \E cutover_id \in CutoverIdArgs : monitor_cutover(cutover_id)
    \/ \E cutover_id \in CutoverIdArgs, reason \in Reasons :
           rollback_cutover(cutover_id, reason)

CutoverSpec == CutoverInit /\ [][CutoverNext]_vars

\* ----------------------------------------------- monitor_cutover on its own
\* monitor_cutover as a function of the cutover it finds.  The coordinator
\* registers every cutover with metrics of zero and never writes them; the
\* metrics are an ordinary entry of the dictionary initiate_cutover returns,
\* so the cutovers here carry error rates and latencies at, below and above
\* the thresholds, at every point of their script.
MetricErrorRates == {0, 50, 51}

MetricLatencies == {0, 10000, 10001}

RECURSIVE AfterSteps(_, _, _)
\* a cutover after k calls of execute_cutover_step
AfterSteps(cutover, k, t) ==
    IF k = 0 THEN cutover ELSE AfterSteps(ExecutedStep(cutover, t), k - 1, t)

MonitorInit ==
    /\ \E strategy \in CutoverStrategy, error_rate \in MetricErrorRates,
          latency_ms \in MetricLatencies :
           \E k \in 0..Len(_generate_cutover_steps(strategy)) :
               LET channel_migration ==
                       PlanAtStage(CutoverCustomer, "ready").channel_migrations[1]
                   cutover == AfterSteps(CutoverPlan(channel_migration, strategy, 0), k, 0)
               IN  active_cutovers =
                       [c \in {cutover.cutover_id} |->
                           [cutover EXCEPT !.metrics = Metrics(error_rate, 0, latency_ms)]]
    /\ simulation = None
    /\ assessments = <<>>
    /\ run = None
    /\ requests = None
    /\ migration_plans =
           [p \in {CHOOSE id \in PlanIds : TRUE} |-> PlanAtStage(CutoverCustomer, "ready")]
    /\ now = MaxClock
    /\ last = CutoverCall("__init__", UnknownCutoverId, "ok", <<>>)

MonitorNext == \E cutover_id \in CutoverIdArgs : monitor_cutover(cutover_id)

MonitorSpec == MonitorInit /\ [][MonitorNext]_vars

\* ============================================================ RiskAssessor
\* The RiskAssessor keeps no state between calls: risk_weights is written
\* by __init__ only.  `last` is the latest call with its argument and its
\* result.
RiskCall(op, input, outcome, value) ==
    [op |-> op, input |-> input, outcome |-> outcome, value |-> value]

\* impact and likelihood scores handed to RiskFactor(...): every tenth of
\* the range of the two fields, and one value on either side of it
ScoreGrid == {10 * k : k \in (0 - 1)..11}

\* the category and the severity a caller gives a factor: neither is read
\* by risk_score
FactorKinds == {<<"technical", "low">>, <<"compliance", "critical">>}

\* Field(..., ge=0.0, le=100.0) of impact_score and likelihood_score
ValidScore(score) == score >= 0 /\ score <= 100

\* RiskFactor(...), built by a caller, and a read of its risk_score
NewRiskFactor(category, severity, impact, likelihood) ==
    /\ last' = IF ValidScore(impact) /\ ValidScore(likelihood)
               THEN RiskCall("RiskFactor",
                             RiskFactor(category, severity, impact, likelihood), "ok",
                             risk_score(RiskFactor(category, severity, impact, likelihood)))
               ELSE RiskCall("RiskFactor", <<impact, likelihood>>, "ValidationError", None)
    /\ UNCHANGED <<migration_plans, now>>
    /\ UNCHANGED engines

\* the compliance requirements of the assessed customers
ComplianceNames == <<"HIPAA", "PCI-DSS", "SOC2", "GDPR", "SOX">>

\* the number of channels above which _assess_channel_complexity reports
\* the count of channels
ManyChannels == 6

\* business_criticality values: the four of the criticality map, one in
\* capitals, one the map does not hold
Criticalities == {"low", "medium", "high", "critical", "HIGH", "unrated"}

RiskCustomer(n, criticality, k, has_contact) ==
    [Customer(n) EXCEPT !.business_criticality    = criticality,
                        !.compliance_requirements = SubSeq(ComplianceNames, 1, k),
                        !.has_contact             = has_contact]

RiskCustomers ==
    {RiskCustomer(n, criticality, k, has_contact) :
        n \in 0..MaxChannels \cup {ManyChannels}, criticality \in Criticalities,
        k \in 0..MaxRequirements, has_contact \in BOOLEAN}

\* the channels handed to assess_channel: every type, with and without a
\* target endpoint, with a volume below, at and above the volume threshold
RiskChannels ==
    {[IntegrationChannel(i) EXCEPT !.target_endpoint    = target_endpoint,
                                   !.transaction_volume = transaction_volume] :
        i \in 1..Len(ChannelTypeSeq),
        target_endpoint \in {None, <<"https://modern.example.com/api">>},
        transaction_volume \in {0, 10000, 15000}}

\* the factors a caller hands to _calculate_overall_risk
FactorPool ==
    {RiskFactor(category, "medium", pair[1], pair[2]) :
        category \in RiskCategory, pair \in {<<0, 0>>, <<80, 50>>, <<100, 100>>}}

\* lists of factors whose category means are whole tenths
FactorLists ==
    {<<>>} \cup {<<f>> : f \in FactorPool}
           \cup {<<pair[1], pair[2]>> :
                    pair \in {q \in FactorPool \X FactorPool :
                                 q[1].category # q[2].category}}

\* an assess_customer whose score grows with the calls made before it
assess_customer_call_drifting(customer) ==
    /\ last' = RiskCall("assess_customer", customer, "ok",
                        [assess_customer(customer) EXCEPT
                            !.overall_risk_score = @ + Len(assessments)])
    /\ UNCHANGED <<migration_plans, now, simulation, active_cutovers, run, requests>>

\* the body of assess_customer as a call
assess_customer_call(customer) ==
    /\ last' = RiskCall("assess_customer", customer, "ok", assess_customer(customer))
    /\ UNCHANGED <<migration_plans, now, simulation, active_cutovers, run, requests>>

\* the body of assess_channel as a call
assess_channel_call(customer, channel) ==
    /\ last' = RiskCall("assess_channel", channel, "ok", assess_channel(customer, channel))
    /\ UNCHANGED <<migration_plans, now, simulation, active_cutovers, run, requests>>

AssessCustomer(customer) ==
    /\ assess_customer_call(customer)
    /\ UNCHANGED assessments

AssessChannel(customer, channel) ==
    /\ assess_channel_call(customer, channel)
    /\ UNCHANGED assessments

\* _calculate_overall_risk and _determine_risk_level on a list of factors
CalculateOverallRisk(factors) ==
    /\ last' = RiskCall("_calculate_overall_risk", factors, "ok",
                        [overall_risk_score |-> _calculate_overall_risk(factors),
                         risk_level         |->
                             _determine_risk_level(_calculate_overall_risk(factors))])
    /\ UNCHANGED <<migration_plans, now>>
    /\ UNCHANGED engines

RiskInit ==
    /\ migration_plans = [p \in {} |-> None]
    /\ now = 0
    /\ last = RiskCall("__init__", None, "ok", None)
    /\ EnginesIdle

RiskNext ==
    \/ \E kind \in FactorKinds, impact \in ScoreGrid, likelihood \in ScoreGrid :
           NewRiskFactor(kind[1], kind[2], impact, likelihood)
    \/ \E customer \in RiskCustomers : AssessCustomer(customer)
    \/ \E customer \in Customers, channel \in RiskChannels :
           AssessChannel(customer, channel)
    \/ \E factors \in FactorLists : CalculateOverallRisk(factors)

RiskSpec == RiskInit /\ [][RiskNext]_vars

\* --------------------------------------------- a sequence of assessments
\* The calls made on one RiskAssessor, kept in `assessments` in the order
\* they were made, each with its argument and its result.
AssessedCustomers ==
    {RiskCustomer(profile[1], profile[2], k, profile[3]) :
        profile \in {<<0, "medium", FALSE>>, <<MaxChannels, "high", TRUE>>,
                     <<ManyChannels, "critical", FALSE>>},
        k \in 0..MaxRequirements}

AssessedChannels == {IntegrationChannel(i) : i \in 1..MaxChannels}

RecordedAssessCustomer(customer) ==
    /\ Len(assessments) < MaxAssessments
    /\ assess_customer_call(customer)
    /\ assessments' = Append(assessments, last')

RecordedAssessChannel(customer, channel) ==
    /\ Len(assessments) < MaxAssessments
    /\ assess_channel_call(customer, channel)
    /\ assessments' = Append(assessments, last')

AssessorNext ==
    \/ \E customer \in AssessedCustomers : RecordedAssessCustomer(customer)
    \/ \E channel \in AssessedChannels :
           RecordedAssessChannel(Customer(MaxChannels), channel)

AssessorSpec == RiskInit /\ [][AssessorNext]_vars

\* ================================================= migration pipeline
\* migration/orchestrator.py: MigrationOrchestrator.run_migration over a
\* LegacyEnvironment and a CloudNativeEnvironment.  `run` holds the DB2
\* tables (record count and flaw of each), the PostgreSQL tables (record
\* count of each), the MigrationResult of the call in progress or of the
\* call that returned last, and the phase the call in progress is about to
\* await.  No phase coroutine suspends, so one call runs from its first
\* phase to its return before another call or a write to the DB2 store.
\* The duration and the payloads of the first three phase results are left
\* out.

\* the phases in the order run_migration awaits them
PhaseOrder == <<"risk_assessment", "analysis", "schema_mapping", "data_migration", "validation">>

\* a pipeline that goes from the risk assessment straight to the mapping
PhaseAfterSkippingAnalysis(phase) ==
    CASE phase = "risk_assessment" -> "schema_mapping"
      [] phase = "analysis"        -> "schema_mapping"
      [] phase = "schema_mapping"  -> "data_migration"
      [] phase = "data_migration"  -> "validation"
      [] phase = "validation"      -> "idle"

\* the statement that follows the recording of a phase result; after the
\* validation the call returns
PhaseAfter(phase) ==
    CASE phase = "risk_assessment" -> "analysis"
      [] phase = "analysis"        -> "schema_mapping"
      [] phase = "schema_mapping"  -> "data_migration"
      [] phase = "data_migration"  -> "validation"
      [] phase = "validation"      -> "idle"

\* the "phase" entry of each phase result: _execute_risk_assessment labels
\* its result MigrationPhase.ANALYSIS
PhaseLabel(phase) ==
    CASE phase = "risk_assessment" -> "analysis"
      [] phase = "analysis"        -> "analysis"
      [] phase = "schema_mapping"  -> "schema_mapping"
      [] phase = "data_migration"  -> "data_loading"
      [] phase = "validation"      -> "validation"

\* the DB2 tables of the model, keyed f"{schema}.{table_name}", in the
\* order the legacy store iterates them
TableKeys == <<"TEST.USERS", "test.users", "PROD.ORDERS">>

\* f"{schema.lower()}.{table_name.lower()}"
lower_key(table_key) ==
    CASE table_key = "TEST.USERS"  -> "test.users"
      [] table_key = "PROD.ORDERS" -> "prod.orders"
      [] OTHER                     -> table_key

\* what is wrong with a DB2Table handed to create_table (a dataclass, so
\* nothing is validated): a column whose data_type is a string and not a
\* DB2DataType, a column without a name, a DECIMAL column whose records hold
\* text
TableFlaws == {"none", "data_type_text", "column_name_missing", "decimal_text"}

\* the flaws of the table of each key
FlawsOf(table_key) ==
    IF table_key = TableKeys[1] THEN TableFlaws ELSE {"none"}

\* migration_plan arguments: omitted, a plan of numbers, a plan whose
\* estimated_records is a string
MigrationPlanArgs == {"omitted", "valid", "malformed"}

RunCall(op, outcome) == [op |-> op, outcome |-> outcome]

\* MigrationResult(status=IN_PROGRESS, started_at=datetime.now())
MigrationResult(t) ==
    [status           |-> "in_progress",
     started_at       |-> t,
     completed_at     |-> None,
     records_migrated |-> 0,
     phases           |-> <<>>,
     errors           |-> <<>>]

PhaseResult(phase, status, detail) ==
    [of     |-> phase,
     phase  |-> PhaseLabel(phase),
     status |-> status,
     detail |-> detail]

\* an except branch that forgets the phases recorded so far
FailedResultWithoutPhases(result, error, t) ==
    [result EXCEPT !.status = "failed", !.errors = Append(@, error),
                   !.completed_at = <<t>>, !.phases = <<>>]

\* the except branch of run_migration
FailedResult(result, error, t) ==
    [result EXCEPT !.status = "failed", !.errors = Append(@, error),
                   !.completed_at = <<t>>]

\* the end of the try block of run_migration
CompletedResult(result, t) ==
    [result EXCEPT !.status = "completed", !.completed_at = <<t>>]

\* DB2Simulator.create_table: the table is registered, its data emptied
db2_create_table(table_key, flaw) ==
    /\ run.pc = "idle"
    /\ run' = [run EXCEPT !.legacy =
                  [k \in DOMAIN run.legacy \cup {table_key} |->
                      IF k = table_key THEN [count |-> 0, flaw |-> flaw]
                      ELSE run.legacy[k]],
                          !.previous = None]
    /\ last' = RunCall("create_table", "ok")
    /\ UNCHANGED <<migration_plans, now, simulation, active_cutovers, assessments, requests>>

\* DB2Simulator.insert_data of n records
db2_insert_data(table_key, n) ==
    /\ run.pc = "idle"
    /\ IF table_key \notin DOMAIN run.legacy
       THEN /\ last' = RunCall("insert_data", "ValueError")
            /\ UNCHANGED run
       ELSE /\ run.legacy[table_key].count + n <= MaxRecords
            /\ run' = [run EXCEPT !.legacy[table_key].count = @ + n,
                                  !.previous = None]
            /\ last' = RunCall("insert_data", "ok")
    /\ UNCHANGED <<migration_plans, now, simulation, active_cutovers, assessments, requests>>

\* run_migration up to its first await
run_migration(migration_plan) ==
    /\ run.pc = "idle"
    /\ run' = [run EXCEPT !.pc        = PhaseOrder[1],
                          !.plan      = migration_plan,
                          !.result    = MigrationResult(now),
                          !.raised_in = None]
    /\ last' = RunCall("run_migration", "running")
    /\ UNCHANGED <<migration_plans, now, simulation, active_cutovers, assessments, requests>>

\* what is remembered of a returned run for as long as the legacy store
\* is not written: its status and its records_migrated
Returned(result) ==
    <<[status           |-> result.status,
       records_migrated |-> result.records_migrated]>>

\* a phase raised: the except branch, and the return
Raised(phase, error, cloud) ==
    /\ run' = [run EXCEPT !.pc        = "idle",
                          !.cloud     = cloud,
                          !.result    = FailedResult(run.result, error, now),
                          !.raised_in = <<phase>>,
                          !.previous  = Returned(FailedResult(run.result, error, now))]
    /\ last' = RunCall("run_migration", "ok")

\* a phase returned: its result is appended; after the last phase the call
\* completes and returns
Recorded(phase, phase_result, cloud, records_migrated) ==
    LET result == [run.result EXCEPT !.phases = Append(@, phase_result),
                                     !.records_migrated = records_migrated]
    IN  /\ run' = [run EXCEPT
                      !.pc     = PhaseAfter(phase),
                      !.cloud  = cloud,
                      !.result = IF PhaseAfter(phase) = "idle"
                                 THEN CompletedResult(result, now)
                                 ELSE result,
                      !.previous = IF PhaseAfter(phase) = "idle"
                                   THEN Returned(CompletedResult(result, now))
                                   ELSE run.previous]
        /\ last' = RunCall("run_migration",
                           IF PhaseAfter(phase) = "idle" THEN "ok" ELSE "running")

\* phase 1: assess_migration_risk compares plan.get("estimated_records", 0)
\* with numbers
_execute_risk_assessment ==
    /\ run.pc = "risk_assessment"
    /\ IF run.plan = "malformed"
       THEN Raised("risk_assessment", "TypeError", run.cloud)
       ELSE Recorded("risk_assessment",
                     PhaseResult("risk_assessment", "completed", None),
                     run.cloud, run.result.records_migrated)
    /\ UNCHANGED <<migration_plans, now, simulation, active_cutovers, assessments, requests>>

\* phase 2: export_schema reads col.data_type.value of every column
_execute_analysis_phase ==
    /\ run.pc = "analysis"
    /\ IF \E k \in DOMAIN run.legacy : run.legacy[k].flaw = "data_type_text"
       THEN Raised("analysis", "AttributeError", run.cloud)
       ELSE Recorded("analysis", PhaseResult("analysis", "completed", None),
                     run.cloud, run.result.records_migrated)
    /\ UNCHANGED <<migration_plans, now, simulation, active_cutovers, assessments, requests>>

RECURSIVE MappedTables(_, _, _)
\* the PostgreSQL store after create_table of the mapped table of each DB2
\* table in turn, up to the first table whose mapping raises
MappedTables(keys, legacy, cloud) ==
    IF keys = <<>> THEN [cloud |-> cloud, raised |-> FALSE]
    ELSE IF Head(keys) \notin DOMAIN legacy
         THEN MappedTables(Tail(keys), legacy, cloud)
    ELSE IF legacy[Head(keys)].flaw = "column_name_missing"
         THEN [cloud |-> cloud, raised |-> TRUE]
    ELSE MappedTables(Tail(keys), legacy,
                      [k \in DOMAIN cloud \cup {lower_key(Head(keys))} |->
                          IF k = lower_key(Head(keys)) THEN 0 ELSE cloud[k]])

\* phase 3: map_db2_to_postgresql_table reads col.name.lower()
_execute_mapping_phase ==
    /\ run.pc = "schema_mapping"
    /\ LET mapped == MappedTables(TableKeys, run.legacy, run.cloud)
       IN  IF mapped.raised
           THEN Raised("schema_mapping", "AttributeError", mapped.cloud)
           ELSE Recorded("schema_mapping",
                         PhaseResult("schema_mapping", "completed", None),
                         mapped.cloud, run.result.records_migrated)
    /\ UNCHANGED <<migration_plans, now, simulation, active_cutovers, assessments, requests>>

RECURSIVE LoadedTables(_, _, _, _)
\* the PostgreSQL store and the number of records loaded after the records
\* of each DB2 table in turn were transformed and inserted, up to the first
\* table whose transformation raises
LoadedTables(keys, legacy, cloud, total) ==
    IF keys = <<>> THEN [cloud |-> cloud, total |-> total, raised |-> FALSE]
    ELSE IF \/ Head(keys) \notin DOMAIN legacy
            \/ legacy[Head(keys)].count = 0
            \/ lower_key(Head(keys)) \notin DOMAIN cloud
         THEN LoadedTables(Tail(keys), legacy, cloud, total)
    ELSE IF legacy[Head(keys)].flaw = "decimal_text"
         THEN [cloud |-> cloud, total |-> total, raised |-> TRUE]
    ELSE LoadedTables(Tail(keys), legacy,
                      [cloud EXCEPT ![lower_key(Head(keys))] = @ + legacy[Head(keys)].count],
                      total + legacy[Head(keys)].count)

\* phase 4: transform_data_record calls float(value) on DECIMAL columns
_execute_migration_phase ==
    /\ run.pc = "data_migration"
    /\ LET loaded == LoadedTables(TableKeys, run.legacy, run.cloud, 0)
       IN  IF loaded.raised
           THEN Raised("data_migration", "ValueError", loaded.cloud)
           ELSE Recorded("data_migration",
                         PhaseResult("data_migration", "completed", loaded.total),
                         loaded.cloud, loaded.total)
    /\ UNCHANGED <<migration_plans, now, simulation, active_cutovers, assessments, requests>>

\* get_table_count: the length of the data of the key, 0 without the key
get_table_count(cloud, key) == IF key \in DOMAIN cloud THEN cloud[key] ELSE 0

\* the validations list of _execute_validation_phase
Validations(legacy, cloud) ==
    LET present == SelectSeq(TableKeys, LAMBDA k : k \in DOMAIN legacy)
    IN  [i \in 1..Len(present) |->
            [table        |-> present[i],
             source_count |-> legacy[present[i]].count,
             target_count |-> get_table_count(cloud, lower_key(present[i])),
             matched      |-> legacy[present[i]].count
                                  = get_table_count(cloud, lower_key(present[i]))]]

\* a validation phase that reports completed whatever the counts are
ValidationPhaseResultCompleted(legacy, cloud) ==
    PhaseResult("validation", "completed", Validations(legacy, cloud))

\* the return value of _execute_validation_phase
ValidationPhaseResult(legacy, cloud) ==
    LET validations == Validations(legacy, cloud)
    IN  PhaseResult("validation",
                    IF \A i \in DOMAIN validations : validations[i].matched
                    THEN "completed" ELSE "failed",
                    validations)

\* phase 5, and the end of run_migration
_execute_validation_phase ==
    /\ run.pc = "validation"
    /\ Recorded("validation", ValidationPhaseResult(run.legacy, run.cloud),
                run.cloud, run.result.records_migrated)
    /\ UNCHANGED <<migration_plans, now, simulation, active_cutovers, assessments, requests>>

MigrationInit ==
    /\ migration_plans = [p \in {} |-> None]
    /\ now = 0
    /\ last = RunCall("__init__", "ok")
    /\ simulation = None
    /\ active_cutovers = [c \in {} |-> None]
    /\ assessments = <<>>
    /\ run = [pc        |-> "idle",
              plan      |-> "omitted",
              legacy    |-> [k \in {} |-> None],
              cloud     |-> [k \in {} |-> 0],
              result    |-> None,
              raised_in |-> None,
              previous  |-> None]
    /\ requests = None

MigrationNext ==
    \/ \E i \in DOMAIN TableKeys : \E flaw \in FlawsOf(TableKeys[i]) :
           db2_create_table(TableKeys[i], flaw)
    \/ \E i \in DOMAIN TableKeys, n \in 1..MaxRecords :
           db2_insert_data(TableKeys[i], n)
    \/ \E migration_plan \in MigrationPlanArgs : run_migration(migration_plan)
    \/ _execute_risk_assessment
    \/ _execute_analysis_phase
    \/ _execute_mapping_phase
    \/ _execute_migration_phase
    \/ _execute_validation_phase

MigrationSpec == MigrationInit /\ [][MigrationNext]_vars

\* ================================================================ HTTP API
\* api/main.py: the endpoints that take a plan id call the method of the
\* same name on the MigrationOrchestrator and answer a ValueError with an
\* HTTPException.  The status code of the answer to a call:
status_code(op, outcome) ==
    IF outcome = "ok" THEN 200
    ELSE IF op \in {"get_migration_status", "run_simulations"} THEN 404
    ELSE 400

\* the operations behind the endpoints that take a plan id
PlanEndpoints ==
    {"get_migration_status", "run_simulations", "execute_migration", "rollback_migration"}

\* ============================================== calls on worker threads
\* api/main.py declares its endpoints with `def`, so the server runs them on
\* the threads of a pool, and the orchestrator holds no lock: two calls on
\* the plan of one id run their statements in any interleaving.  `requests`
\* holds one execute_migration and one rollback_migration on the same plan:
\* for each its arguments, the statement it is at (pc), the channel
\* migrations its loop has still to visit (todo), the value of its all(...)
\* (flag) and how it ended; and whether the two calls ever ran at the same
\* time.  One action is one statement of migration_orchestrator.py.
Request(channel_id, reason) ==
    [pc         |-> "idle",
     channel_id |-> channel_id,
     reason     |-> reason,
     todo       |-> <<>>,
     flag       |-> FALSE,
     outcome    |-> ""]

\* the plan the two calls are made on
ThePlanId == CHOOSE id \in PlanIds : TRUE

ThePlan == migration_plans[ThePlanId]

\* a call is between its first statement and its return
Running(request) == request.pc \notin {"idle", "done"}

\* the indices of the targeted channel migrations, in the order of the list
TargetedSeq(plan, channel_id) ==
    SelectSeq([i \in 1..Len(plan.channel_migrations) |-> i],
              LAMBDA i : i \in Targeted(plan, channel_id))

\* a statement of one call: the plan and the call's own record change
Statement(name, request, plan) ==
    /\ requests' = [requests EXCEPT ![name] = request]
    /\ migration_plans' = [migration_plans EXCEPT ![ThePlanId] = plan]
    /\ last' = IF request.pc = "done"
               THEN Call(name, ThePlanId, request.channel_id, request.reason,
                         request.outcome)
               ELSE last
    /\ UNCHANGED <<now, simulation, active_cutovers, assessments, run>>

\* the call arrives: plan = self.migration_plans.get(plan_id), found
Arrives(name, other, channel_id, reason) ==
    /\ requests[name].pc = "idle"
    /\ requests' = [requests EXCEPT
                       ![name] = [Request(channel_id, reason) EXCEPT !.pc = "entered"],
                       !.overlapped = @ \/ Running(requests[other])]
    /\ UNCHANGED <<migration_plans, now, last, simulation, active_cutovers,
                   assessments, run>>

\* --------------------------------------------- execute_migration, by line
execute_arrives(channel_id) ==
    Arrives("execute_migration", "rollback_migration", channel_id, "")

\* lines 174-175: if plan.overall_status != MigrationStatus.READY: raise
execute_checks_ready ==
    LET request == requests["execute_migration"]
    IN  /\ request.pc = "entered"
        /\ Statement("execute_migration",
                     IF ThePlan.overall_status # "ready"
                     THEN [request EXCEPT !.pc = "done", !.outcome = "invalid_state"]
                     ELSE [request EXCEPT !.pc = "set_in_progress"],
                     ThePlan)

\* line 178: plan.overall_status = MigrationStatus.IN_PROGRESS
execute_sets_in_progress ==
    LET request == requests["execute_migration"]
    IN  /\ request.pc = "set_in_progress"
        /\ Statement("execute_migration", [request EXCEPT !.pc = "set_actual_start"],
                     [ThePlan EXCEPT !.overall_status = "in_progress"])

\* line 179: plan.actual_start = datetime.utcnow()
execute_sets_actual_start ==
    LET request == requests["execute_migration"]
    IN  /\ request.pc = "set_actual_start"
        /\ Statement("execute_migration", [request EXCEPT !.pc = "select"],
                     [ThePlan EXCEPT !.actual_start = <<now>>])

\* where the loop over channels_to_migrate goes with this much left to visit
ExecuteLoop(todo) == IF todo = <<>> THEN "all_completed" ELSE "channel_in_progress"

\* lines 182-185: channels_to_migrate = [...]
execute_selects_channels ==
    LET request == requests["execute_migration"]
        todo    == TargetedSeq(ThePlan, request.channel_id)
    IN  /\ request.pc = "select"
        /\ Statement("execute_migration",
                     [request EXCEPT !.todo = todo, !.pc = ExecuteLoop(todo)],
                     ThePlan)

\* line 318: channel_migration.status = MigrationStatus.IN_PROGRESS
channel_set_in_progress ==
    LET request == requests["execute_migration"]
    IN  /\ request.pc = "channel_in_progress"
        /\ Statement("execute_migration", [request EXCEPT !.pc = "channel_timestamp"],
                     [ThePlan EXCEPT
                         !.channel_migrations[Head(request.todo)].status = "in_progress"])

\* line 319: channel_migration.cutover_timestamp = datetime.utcnow()
channel_set_cutover_timestamp ==
    LET request == requests["execute_migration"]
    IN  /\ request.pc = "channel_timestamp"
        /\ Statement("execute_migration", [request EXCEPT !.pc = "channel_completed"],
                     [ThePlan EXCEPT
                         !.channel_migrations[Head(request.todo)].cutover_timestamp
                             = <<now>>])

\* line 328: channel_migration.status = MigrationStatus.COMPLETED
channel_set_completed ==
    LET request == requests["execute_migration"]
    IN  /\ request.pc = "channel_completed"
        /\ Statement("execute_migration", [request EXCEPT !.pc = "channel_note"],
                     [ThePlan EXCEPT
                         !.channel_migrations[Head(request.todo)].status = "completed"])

\* line 329: channel_migration.notes.append(...), and the next channel
channel_append_note ==
    LET request == requests["execute_migration"]
    IN  /\ request.pc = "channel_note"
        /\ Statement("execute_migration",
                     [request EXCEPT !.todo = Tail(@),
                                     !.pc = ExecuteLoop(Tail(request.todo))],
                     [ThePlan EXCEPT
                         !.channel_migrations[Head(request.todo)].notes =
                             Append(@, <<"Migration completed at", now>>)])

\* lines 191-194: all_completed = all(...)
execute_reads_all_completed ==
    LET request == requests["execute_migration"]
        all_completed ==
            \A i \in DOMAIN ThePlan.channel_migrations :
                ThePlan.channel_migrations[i].status = "completed"
    IN  /\ request.pc = "all_completed"
        /\ Statement("execute_migration",
                     IF all_completed
                     THEN [request EXCEPT !.flag = TRUE, !.pc = "set_completed"]
                     ELSE [request EXCEPT !.pc = "done", !.outcome = "ok"],
                     ThePlan)

\* line 197: plan.overall_status = MigrationStatus.COMPLETED
execute_sets_completed ==
    LET request == requests["execute_migration"]
    IN  /\ request.pc = "set_completed"
        /\ Statement("execute_migration",
                     [request EXCEPT !.pc = "set_actual_completion"],
                     [ThePlan EXCEPT !.overall_status = "completed"])

\* lines 198-200: plan.actual_completion = datetime.utcnow(); return plan
execute_sets_actual_completion ==
    LET request == requests["execute_migration"]
    IN  /\ request.pc = "set_actual_completion"
        /\ Statement("execute_migration",
                     [request EXCEPT !.pc = "done", !.outcome = "ok"],
                     [ThePlan EXCEPT !.actual_completion = <<now>>])

\* -------------------------------------------- rollback_migration, by line
rollback_arrives(channel_id, reason) ==
    Arrives("rollback_migration", "execute_migration", channel_id, reason)

\* where the loop over channels_to_rollback goes with this much left to visit
RollbackLoop(todo) == IF todo = <<>> THEN "all_rolled_back" ELSE "channel_status"

\* lines 223-226: channels_to_rollback = [...]
rollback_selects_channels ==
    LET request == requests["rollback_migration"]
        todo    == TargetedSeq(ThePlan, request.channel_id)
    IN  /\ request.pc = "entered"
        /\ Statement("rollback_migration",
                     [request EXCEPT !.todo = todo, !.pc = RollbackLoop(todo)],
                     ThePlan)

\* lines 229-230: if rollback_available: status = MigrationStatus.ROLLED_BACK
rollback_sets_channel_status ==
    LET request == requests["rollback_migration"]
        i       == Head(request.todo)
    IN  /\ request.pc = "channel_status"
        /\ Statement("rollback_migration", [request EXCEPT !.pc = "channel_note"],
                     IF ThePlan.channel_migrations[i].rollback_available
                     THEN [ThePlan EXCEPT !.channel_migrations[i].status = "rolled_back"]
                     ELSE ThePlan)

\* a rollback that never writes the overall status of the plan
rollback_leaves_status ==
    LET request == requests["rollback_migration"]
    IN  /\ request.pc = "set_rolled_back"
        /\ Statement("rollback_migration",
                     [request EXCEPT !.pc = "done", !.outcome = "ok"], ThePlan)

\* lines 231-233: channel_migration.notes.append(...), and the next channel
rollback_appends_note ==
    LET request == requests["rollback_migration"]
        i       == Head(request.todo)
    IN  /\ request.pc = "channel_note"
        /\ Statement("rollback_migration",
                     [request EXCEPT !.todo = Tail(@),
                                     !.pc = RollbackLoop(Tail(request.todo))],
                     [ThePlan EXCEPT
                         !.channel_migrations[i].notes =
                             Append(@, IF ThePlan.channel_migrations[i].rollback_available
                                       THEN <<"Rolled back", request.reason>>
                                       ELSE <<"Rollback not available", request.reason>>)])

\* lines 236-239: all_rolled_back = all(...) over channels_to_rollback
rollback_reads_all_rolled_back ==
    LET request == requests["rollback_migration"]
        all_rolled_back ==
            \A i \in Targeted(ThePlan, request.channel_id) :
                ThePlan.channel_migrations[i].status = "rolled_back"
    IN  /\ request.pc = "all_rolled_back"
        /\ Statement("rollback_migration",
                     IF all_rolled_back
                     THEN [request EXCEPT !.flag = TRUE, !.pc = "set_rolled_back"]
                     ELSE [request EXCEPT !.pc = "done", !.outcome = "ok"],
                     ThePlan)

\* lines 241-244: plan.overall_status = MigrationStatus.ROLLED_BACK; return
rollback_sets_rolled_back ==
    LET request == requests["rollback_migration"]
    IN  /\ request.pc = "set_rolled_back"
        /\ Statement("rollback_migration",
                     [request EXCEPT !.pc = "done", !.outcome = "ok"],
                     [ThePlan EXCEPT !.overall_status = "rolled_back"])

\* a ready plan of one customer, and neither call made yet
ThreadsInit ==
    /\ \E n \in 1..MaxChannels :
           migration_plans = [p \in {ThePlanId} |-> PlanAtStage(Customer(n), "ready")]
    /\ now = 1
    /\ last = Call("run_simulations", ThePlanId, NoChannelId, "", "ok")
    /\ simulation = None
    /\ active_cutovers = [c \in {} |-> None]
    /\ assessments = <<>>
    /\ run = None
    /\ requests = [execute_migration  |-> Request(NoChannelId, ""),
                   rollback_migration |-> Request(NoChannelId, ""),
                   overlapped         |-> FALSE]

ThreadsNext ==
    \/ \E channel_id \in ChannelIdArgs : execute_arrives(channel_id)
    \/ execute_checks_ready
    \/ execute_sets_in_progress
    \/ execute_sets_actual_start
    \/ execute_selects_channels
    \/ channel_set_in_progress
    \/ channel_set_cutover_timestamp
    \/ channel_set_completed
    \/ channel_append_note
    \/ execute_reads_all_completed
    \/ execute_sets_completed
    \/ execute_sets_actual_completion
    \/ \E channel_id \in ChannelIdArgs, reason \in Reasons :
           rollback_arrives(channel_id, reason)
    \/ rollback_selects_channels
    \/ rollback_sets_channel_status
    \/ rollback_appends_note
    \/ rollback_reads_all_rolled_back
    \/ rollback_sets_rolled_back

ThreadsSpec == ThreadsInit /\ [][ThreadsNext]_vars

\* ================================================================= claims
\* the plan a call was made on, before and after the call
PlanBefore == migration_plans[last'.plan_id]

PlanAfter == migration_plans'[last'.plan_id]

\* a step is the call `op` on a stored plan
CallOnStoredPlan(op) ==
    /\ last'.op = op
    /\ last'.plan_id \in DOMAIN migration_plans

\* the channels a channel_id argument names: all of them when it is omitted
NamedChannels(plan, channel_id) ==
    {i \in DOMAIN plan.channel_migrations :
        channel_id = NoChannelId \/ plan.channel_migrations[i].channel_id = channel_id}

\* C1: execute_migration on a stored plan whose overall status is not ready
\* fails with the invalid-state error and changes nothing in the registry:
\* no channel status, cutover timestamp or notes, no overall status, no
\* actual_start.
C1_ExecuteNotReadyChangesNothing ==
    [][(CallOnStoredPlan("execute_migration") /\ PlanBefore.overall_status # "ready")
          => /\ last'.outcome = "invalid_state"
             /\ migration_plans' = migration_plans]_vars

\* C1 witness: an execute_migration call has just failed with invalid-state
\* on a stored plan that has channels and has already completed once
C1_Witness ==
    /\ last.op = "execute_migration"
    /\ last.outcome = "invalid_state"
    /\ last.plan_id \in DOMAIN migration_plans
    /\ migration_plans[last.plan_id].overall_status = "completed"
    /\ Len(migration_plans[last.plan_id].channel_migrations) = MaxChannels

C3_UnknownPlanNotFound ==
    [][(/\ last'.op \in {"run_simulations", "execute_migration",
                         "rollback_migration", "get_migration_status"}
        /\ last'.plan_id \notin DOMAIN migration_plans)
          => /\ last'.outcome = "not_found"
             /\ migration_plans' = migration_plans]_vars

\* C3 witness: a call has just failed with not-found while the registry
\* holds a plan
C3_Witness ==
    /\ last.outcome = "not_found"
    /\ last.op = "execute_migration"
    /\ last.plan_id \notin DOMAIN migration_plans
    /\ DOMAIN migration_plans # {}

\* C4: execute_migration on a ready plan moves every targeted channel to
\* completed with its cutover timestamp set, leaves every other channel as
\* it was, and leaves the plan completed iff every channel is then completed.
C4_ExecuteCompletesTargeted ==
    [][(CallOnStoredPlan("execute_migration") /\ PlanBefore.overall_status = "ready")
          => LET before == PlanBefore.channel_migrations
                 after  == PlanAfter.channel_migrations
                 target == NamedChannels(PlanBefore, last'.channel_id)
             IN  /\ last'.outcome = "ok"
                 /\ DOMAIN after = DOMAIN before
                 /\ \A i \in target :
                        /\ after[i].status = "completed"
                        /\ after[i].cutover_timestamp # None
                 /\ \A i \in DOMAIN before \ target : after[i] = before[i]
                 /\ (PlanAfter.overall_status = "completed")
                        <=> \A i \in DOMAIN after : after[i].status = "completed"]_vars

\* C4 witness: execute_migration has just completed one named channel of a
\* plan and left another channel ready, the plan in progress
C4_Witness ==
    /\ last.op = "execute_migration"
    /\ last.outcome = "ok"
    /\ last.channel_id # NoChannelId
    /\ LET plan == migration_plans[last.plan_id]
       IN  /\ plan.overall_status = "in_progress"
           /\ \E i, j \in DOMAIN plan.channel_migrations :
                  /\ plan.channel_migrations[i].channel_id = last.channel_id
                  /\ plan.channel_migrations[i].status = "completed"
                  /\ plan.channel_migrations[i].cutover_timestamp # None
                  /\ plan.channel_migrations[j].status = "ready"

\* C5: rollback_migration moves each targeted channel whose
\* rollback_available flag is set to rolled_back and appends a rollback note
\* to it; a targeted channel whose flag is clear keeps its status and only
\* gets a refusal note; the other channels are untouched; and the plan's
\* overall status changes only to rolled_back, and only if every targeted
\* channel ended rolled_back.
C5_RollbackTargetedOnly ==
    [][CallOnStoredPlan("rollback_migration")
          => LET before == PlanBefore.channel_migrations
                 after  == PlanAfter.channel_migrations
                 target == NamedChannels(PlanBefore, last'.channel_id)
             IN  /\ last'.outcome = "ok"
                 /\ DOMAIN after = DOMAIN before
                 /\ \A i \in target :
                        IF before[i].rollback_available
                        THEN after[i] =
                               [before[i] EXCEPT
                                   !.status = "rolled_back",
                                   !.notes = Append(@, <<"Rolled back", last'.reason>>)]
                        ELSE after[i] =
                               [before[i] EXCEPT
                                   !.notes = Append(@, <<"Rollback not available",
                                                         last'.reason>>)]
                 /\ \A i \in DOMAIN before \ target : after[i] = before[i]
                 /\ PlanAfter.overall_status # PlanBefore.overall_status
                        => /\ PlanAfter.overall_status = "rolled_back"
                           /\ \A i \in target : after[i].status = "rolled_back"]_vars

\* C5 witness: rollback_migration of a whole plan has just rolled back one
\* channel and refused another, which stays ready, and the plan is still
\* ready
C5_Witness ==
    /\ last.op = "rollback_migration"
    /\ last.outcome = "ok"
    /\ last.channel_id = NoChannelId
    /\ LET plan == migration_plans[last.plan_id]
           cms  == plan.channel_migrations
       IN  /\ plan.overall_status = "ready"
           /\ \E i, j \in DOMAIN cms :
                  /\ cms[i].rollback_available
                  /\ cms[i].status = "rolled_back"
                  /\ cms[i].notes[Len(cms[i].notes)] = <<"Rolled back", last.reason>>
                  /\ ~cms[j].rollback_available
                  /\ cms[j].status = "ready"
                  /\ cms[j].notes[Len(cms[j].notes)]
                         = <<"Rollback not available", last.reason>>

\* C7: get_migration_status is a pure read: a call changes no field of any
\* plan or channel, nor the registry, nor the clock.
C7_StatusIsPureRead ==
    [][last'.op = "get_migration_status"
          => /\ migration_plans' = migration_plans
             /\ now' = now]_vars

\* C7 witness: get_migration_status has just returned the snapshot of a plan
\* that is in progress
C7_Witness ==
    /\ last.op = "get_migration_status"
    /\ last.outcome = "ok"
    /\ migration_plans[last.plan_id].overall_status = "in_progress"
    /\ last.value = <<StatusSnapshot(migration_plans[last.plan_id])>>

\* the position of a status along pending -> planning -> risk_assessment ->
\* simulation -> ready -> in_progress -> {completed | failed | rolled_back}
StatusRank(status) ==
    CASE status = "pending"         -> 0
      [] status = "planning"        -> 1
      [] status = "risk_assessment" -> 2
      [] status = "simulation"      -> 3
      [] status = "ready"           -> 4
      [] status = "in_progress"     -> 5
      [] OTHER                      -> 6

Terminal(status) == status \in {"completed", "failed", "rolled_back"}

\* a status stays, or moves forward from a state that is not terminal
MovesForward(old, new) ==
    new = old \/ (~Terminal(old) /\ StatusRank(new) > StatusRank(old))

\* C6: over any sequence of calls the overall status of a plan and the
\* status of each of its channels only move forward along the state chain;
\* completed, failed and rolled_back are never left.
C6_StatusOnlyMovesForward ==
    [][\A p \in DOMAIN migration_plans :
          /\ MovesForward(migration_plans[p].overall_status,
                          migration_plans'[p].overall_status)
          /\ \A i \in DOMAIN migration_plans[p].channel_migrations :
                 MovesForward(migration_plans[p].channel_migrations[i].status,
                              migration_plans'[p].channel_migrations[i].status)]_vars

\* C8: execute_migration and rollback_migration, called with a channel_id
\* that is not a channel of the plan, report a failure: such a call never
\* returns normally as if its target set were empty.
C8_UnknownChannelRejected ==
    (/\ last.op \in {"execute_migration", "rollback_migration"}
     /\ last.plan_id \in DOMAIN migration_plans
     /\ last.channel_id # NoChannelId
     /\ \A i \in DOMAIN migration_plans[last.plan_id].channel_migrations :
            migration_plans[last.plan_id].channel_migrations[i].channel_id
                # last.channel_id)
    => last.outcome # "ok"

\* C9: a second rollback_migration with the same arguments on a plan that is
\* already rolled back has no further effect: the overall status and every
\* channel's status and notes are as the first call left them.
C9_SecondRollbackNoEffect ==
    [][(/\ last.op = "rollback_migration"
        /\ last.outcome = "ok"
        /\ migration_plans[last.plan_id].overall_status = "rolled_back"
        /\ last'.op = "rollback_migration"
        /\ last'.plan_id = last.plan_id
        /\ last'.channel_id = last.channel_id
        /\ last'.reason = last.reason)
          => /\ PlanAfter.overall_status = PlanBefore.overall_status
             /\ \A i \in DOMAIN PlanBefore.channel_migrations :
                    /\ PlanAfter.channel_migrations[i].status
                           = PlanBefore.channel_migrations[i].status
                    /\ PlanAfter.channel_migrations[i].notes
                           = PlanBefore.channel_migrations[i].notes]_vars

\* C10: for every plan create_migration_plan stores, whatever the strategy
\* and the number of channels (zero included), planned_completion is
\* strictly later than planned_start.
C10_CompletionAfterStart ==
    \A p \in DOMAIN migration_plans :
        /\ migration_plans[p].planned_start # None
        /\ migration_plans[p].planned_completion # None
        /\ migration_plans[p].planned_completion[1] > migration_plans[p].planned_start[1]

\* C11: create_migration_plan for a customer with N channels builds a plan
\* with overall status planning and exactly N channel migrations, the i-th
\* for the customer's i-th channel, each with status planning,
\* simulation_passed false, rollback_available true and playbook id
\* PLAYBOOK-<channel type>; both planned dates are set; the plan (the object
\* the call returns) is stored under its own plan id, which no stored plan
\* had, and every plan stored before is as it was.
C11_CreateBuildsOnePerChannel ==
    [][\A customer \in Customers, strategy \in Strategies :
          create_migration_plan_from(MorePlanIds, customer, strategy)
              => /\ last'.plan_id \notin DOMAIN migration_plans
                 /\ DOMAIN migration_plans' = DOMAIN migration_plans \cup {last'.plan_id}
                 /\ \A p \in DOMAIN migration_plans :
                        migration_plans'[p] = migration_plans[p]
                 /\ PlanAfter.plan_id = last'.plan_id
                 /\ PlanAfter.overall_status = "planning"
                 /\ PlanAfter.planned_start # None
                 /\ PlanAfter.planned_completion # None
                 /\ Len(PlanAfter.channel_migrations) = Len(customer.channels)
                 /\ \A i \in 1..Len(customer.channels) :
                        LET cm == PlanAfter.channel_migrations[i]
                            channel == customer.channels[i]
                        IN  /\ cm.channel_id = channel.channel_id
                            /\ cm.channel_type = channel.channel_type
                            /\ cm.status = "planning"
                            /\ cm.simulation_passed = FALSE
                            /\ cm.rollback_available = TRUE
                            /\ cm.playbook_id = <<"PLAYBOOK-", channel.channel_type>>]_vars

\* C11 witness: a plan for a customer with two channels of different types
\* has just been created in a registry that already held another plan
C11_Witness ==
    /\ last.op = "create_migration_plan"
    /\ Cardinality(DOMAIN migration_plans) = 2
    /\ Len(migration_plans[last.plan_id].channel_migrations) = 2
    /\ migration_plans[last.plan_id].channel_migrations[1].channel_type
           # migration_plans[last.plan_id].channel_migrations[2].channel_type
    /\ \E p \in DOMAIN migration_plans :
           p # last.plan_id /\ migration_plans[p].channel_migrations # <<>>

\* the percentage the specification gives for each status
C12_Percentage(status) ==
    CASE status = "pending"         -> 0
      [] status = "planning"        -> 10
      [] status = "risk_assessment" -> 20
      [] status = "simulation"      -> 40
      [] status = "ready"           -> 60
      [] status = "in_progress"     -> 80
      [] status = "completed"       -> 100
      [] status = "failed"          -> 0
      [] status = "rolled_back"     -> 0

RECURSIVE C12_Sum(_)
C12_Sum(cms) ==
    IF cms = <<>> THEN 0 ELSE C12_Percentage(Head(cms).status) + C12_Sum(Tail(cms))

\* C12: the progress_percentage get_migration_status reports for a plan with
\* channels is the arithmetic mean over its channels of the fixed map
\* (pending 0, planning 10, risk_assessment 20, simulation 40, ready 60,
\* in_progress 80, completed 100, failed 0, rolled_back 0), as the fraction
\* num / den; it is 0 for a plan without channels; it lies in [0, 100].
C12_ProgressIsMeanOfMap ==
    (last.op = "get_migration_status" /\ last.outcome = "ok")
        => LET plan     == migration_plans[last.plan_id]
               n        == Len(plan.channel_migrations)
               progress == last.value[1].progress_percentage
           IN  /\ progress.den > 0
               /\ n > 0 => progress.num * n = C12_Sum(plan.channel_migrations) * progress.den
               /\ n = 0 => progress.num = 0
               /\ 0 <= progress.num
               /\ progress.num <= 100 * progress.den

\* C12 witness: the status of a plan with a completed and an in-progress
\* channel has just been reported as 90 percent
C12_Witness ==
    /\ last.op = "get_migration_status"
    /\ last.outcome = "ok"
    /\ \E i, j \in DOMAIN migration_plans[last.plan_id].channel_migrations :
           /\ migration_plans[last.plan_id].channel_migrations[i].status = "completed"
           /\ migration_plans[last.plan_id].channel_migrations[j].status = "in_progress"
    /\ Len(migration_plans[last.plan_id].channel_migrations) = 2
    /\ last.value[1].progress_percentage.num
           = 90 * last.value[1].progress_percentage.den

\* C13: execute_simulation that returns leaves one result per scenario, in
\* scenario order, a success_rate of 100 * successes / scenarios, or 0
\* without scenarios, and an overall status that is passed if and only if
\* success_rate >= 95.0 and failed otherwise; a simulation without scenarios
\* is failed.
C13_OneResultPerScenarioAndRate ==
    (last.op = "execute_simulation" /\ last.outcome = "ok")
        => LET n == Len(simulation.scenarios)
               k == Cardinality({i \in DOMAIN simulation.results :
                                    simulation.results[i].success})
           IN  /\ Len(simulation.results) = n
               /\ \A i \in 1..n :
                      simulation.results[i].scenario_id
                          = simulation.scenarios[i].scenario_id
               /\ n > 0 => simulation.success_rate.num * n
                               = 100 * k * simulation.success_rate.den
               /\ n = 0 => simulation.success_rate.num = 0
               /\ simulation.overall_status \in {"passed", "failed"}
               /\ simulation.overall_status = "passed"
                      <=> AtLeast(simulation.success_rate, 95)
               /\ n = 0 => simulation.overall_status = "failed"

\* C14: passed is true exactly when the overall status is passed and the
\* success_rate is at least 95.0; it is false for a simulation that
\* create_simulation has just returned; after execute_simulation it is true
\* if and only if the overall status is passed.
C14_PassedFlag ==
    simulation # None
        => /\ passed(simulation)
                  <=> (/\ simulation.overall_status = "passed"
                       /\ simulation.success_rate.num >= 95 * simulation.success_rate.den)
           /\ last.op = "create_simulation" => ~passed(simulation)
           /\ last.op = "execute_simulation"
                  => (passed(simulation) <=> simulation.overall_status = "passed")

\* C14 witness: a simulation a caller built with status passed and a
\* success rate of 94.9 is held, and its passed flag is false
C14_Witness ==
    /\ simulation # None
    /\ last.op = "MigrationSimulation"
    /\ simulation.overall_status = "passed"
    /\ simulation.success_rate = Rate(949, 10)
    /\ ~passed(simulation)

\* C15: execute_simulation never raises; each result is successful if and
\* only if its difference list is empty, and failed otherwise; the
\* simulation ends in overall status passed or failed.
C15_NoErrorSurfaces ==
    last.op = "execute_simulation"
        => /\ last.outcome = "ok"
           /\ \A i \in DOMAIN simulation.results :
                  /\ simulation.results[i].success
                         <=> simulation.results[i].differences = <<>>
                  /\ simulation.results[i].status
                         = IF simulation.results[i].success THEN "passed" ELSE "failed"
           /\ simulation.overall_status \in {"passed", "failed"}

\* the number of steps the specification gives for each strategy
C16_StepCount(strategy) ==
    CASE strategy = "immediate" -> 3
      [] strategy = "gradual"   -> 6
      [] strategy = "parallel"  -> 5
      [] strategy = "canary"    -> 5

\* C16: execute_cutover_step on a cutover whose cursor is below the step
\* count marks the pending step at the cursor completed, raises the cursor
\* by one and leaves every other step as it was; the cutover is completed
\* after the call exactly when the cursor has reached the step count, which
\* is 3 (immediate), 6 (gradual), 5 (parallel) or 5 (canary), so that a
\* cutover never rolled back, whose cursor counts the calls made on it, is
\* completed after exactly that many calls; a call at the step count changes
\* no step and no cursor.
C16_ExecuteAdvancesOneStep ==
    [][(last'.op = "execute_cutover_step" /\ last'.outcome = "ok")
          => LET before == active_cutovers[last'.cutover_id]
                 after  == active_cutovers'[last'.cutover_id]
                 n      == Len(before.steps)
                 i      == before.current_step + 1
             IN  /\ n = C16_StepCount(before.strategy)
                 /\ Len(after.steps) = n
                 /\ before.current_step < n
                        => /\ before.steps[i].status = "pending"
                           /\ after.steps[i].status = "completed"
                           /\ after.current_step = before.current_step + 1
                           /\ \A j \in 1..n : j # i => after.steps[j] = before.steps[j]
                           /\ after.status = "completed" <=> after.current_step = n
                 /\ before.current_step >= n
                        => /\ after.steps = before.steps
                           /\ after.current_step = before.current_step
                 /\ after.rollback = None
                        => /\ after.status = "completed" <=> after.current_step = n
                           /\ \A j \in 1..n :
                                  after.steps[j].status = "completed"
                                      <=> j <= after.current_step]_vars

\* C16 witness: the sixth execute_cutover_step on a gradual cutover that was
\* never rolled back has just completed it
C16_Witness ==
    /\ last.op = "execute_cutover_step"
    /\ last.outcome = "ok"
    /\ active_cutovers[last.cutover_id].strategy = "gradual"
    /\ active_cutovers[last.cutover_id].rollback = None
    /\ active_cutovers[last.cutover_id].status = "completed"
    /\ active_cutovers[last.cutover_id].current_step = 6

\* the place of a cutover status on the chain
\* initiated -> in_progress -> {completed | rolled_back}
C17_Rank(status) ==
    CASE status = "initiated"   -> 0
      [] status = "in_progress" -> 1
      [] OTHER                  -> 2

\* C17: a call of execute_cutover_step, monitor_cutover or rollback_cutover
\* leaves the status of every cutover where it was or moves it forward on
\* the chain initiated -> in_progress -> {completed | rolled_back}; a
\* rolled_back cutover stays rolled_back under execute_cutover_step.
C17_StatusMovesAlongChain ==
    [][last'.op \in {"execute_cutover_step", "monitor_cutover", "rollback_cutover"}
          => \A c \in DOMAIN active_cutovers :
                 LET old == active_cutovers[c].status
                     new == active_cutovers'[c].status
                 IN  /\ new = old \/ C17_Rank(new) > C17_Rank(old)
                     /\ (old = "rolled_back" /\ last'.op = "execute_cutover_step")
                            => new = "rolled_back"]_vars

\* C18: after rollback_cutover on a registered cutover the rollback holds
\* the five steps of the reversal script, the cutover is rolled_back, and so
\* is the channel migration the cutover was initiated for.
C18_RollbackMarksCutoverAndChannel ==
    (last.op = "rollback_cutover" /\ last.outcome = "ok")
        => LET cutover == active_cutovers[last.cutover_id]
           IN  /\ Len(last.value[1].steps) = 5
               /\ cutover.status = "rolled_back"
               /\ \A p \in DOMAIN migration_plans :
                      \A i \in DOMAIN migration_plans[p].channel_migrations :
                          migration_plans[p].channel_migrations[i].channel_id
                                  = cutover.channel_id
                              => migration_plans[p].channel_migrations[i].status
                                     = "rolled_back"

\* C19: monitor_cutover on a registered cutover leaves the registry as it
\* was; it reports degraded if and only if the stored error rate is above
\* 5.0 or the stored latency is above 1000.0 ms, healthy otherwise, with one
\* warning for each threshold exceeded and none otherwise.
C19_MonitorReadsOnly ==
    [][(last'.op = "monitor_cutover" /\ last'.outcome = "ok")
          => LET metrics == active_cutovers[last'.cutover_id].metrics
                 report  == last'.value[1]
                 error   == metrics.error_rate > 50
                 latency == metrics.latency_ms > 10000
             IN  /\ active_cutovers' = active_cutovers
                 /\ report.health_status \in {"healthy", "degraded"}
                 /\ report.health_status = "degraded" <=> (error \/ latency)
                 /\ Len(report.warnings)
                        = (IF error THEN 1 ELSE 0) + (IF latency THEN 1 ELSE 0)
                 /\ error <=> \E w \in DOMAIN report.warnings :
                                  report.warnings[w] = "Error rate above threshold"
                 /\ latency <=> \E w \in DOMAIN report.warnings :
                                    report.warnings[w] = "Latency above threshold"]_vars

\* C19 witness: a cutover in progress whose stored error rate is exactly 5.0
\* and whose latency is above 1000.0 ms has just been reported degraded with
\* the latency warning alone
C19_Witness ==
    /\ last.op = "monitor_cutover"
    /\ last.outcome = "ok"
    /\ active_cutovers[last.cutover_id].status = "in_progress"
    /\ active_cutovers[last.cutover_id].metrics.error_rate = 50
    /\ active_cutovers[last.cutover_id].metrics.latency_ms = 10001
    /\ last.value[1].health_status = "degraded"
    /\ last.value[1].warnings = <<"Latency above threshold">>

\* C20: execute_cutover_step, monitor_cutover and rollback_cutover given a
\* cutover id that is not registered fail with the not-found error and leave
\* the registry as it was.
C20_UnknownCutoverNotFound ==
    [][(/\ last'.op \in {"execute_cutover_step", "monitor_cutover", "rollback_cutover"}
        /\ last'.cutover_id \notin DOMAIN active_cutovers)
          => /\ last'.outcome = "not_found"
             /\ active_cutovers' = active_cutovers]_vars

\* C20 witness: rollback_cutover with an unknown id has just failed on a
\* registry that holds a cutover in progress
C20_Witness ==
    /\ last.op = "rollback_cutover"
    /\ last.outcome = "not_found"
    /\ last.cutover_id \notin DOMAIN active_cutovers
    /\ \E c \in DOMAIN active_cutovers : active_cutovers[c].status = "in_progress"

\* C21: every RiskFactor whose impact and likelihood lie in [0, 100] has a
\* risk_score equal to impact x likelihood / 100, and the score lies in
\* [0, 100] (scores in tenths); this holds of the factors a caller builds and
\* of the factors the assessor returns
C21_RiskScoreIsProduct ==
    /\ (last.op = "RiskFactor" /\ last.outcome = "ok") =>
           /\ last.value * 10 = last.input.impact_score * last.input.likelihood_score
           /\ last.value >= 0
           /\ last.value <= 1000
    /\ last.op \in {"assess_customer", "assess_channel"} =>
           \A i \in DOMAIN last.value.risk_factors :
               LET factor == last.value.risk_factors[i]
               IN  /\ risk_score(factor) * 10 = factor.impact_score * factor.likelihood_score
                   /\ risk_score(factor) >= 0
                   /\ risk_score(factor) <= 1000

\* a factor of impact 80 and likelihood 50 was built and scored 40.0
C21_Witness ==
    /\ last.op = "RiskFactor"
    /\ last.outcome = "ok"
    /\ last.input.impact_score = 80
    /\ last.input.likelihood_score = 50
    /\ last.value = 400

\* the threshold function of the claim on a score in tenths
C22_Threshold(score) ==
    IF score >= 700 THEN "critical"
    ELSE IF score >= 500 THEN "high"
    ELSE IF score >= 300 THEN "medium"
    ELSE "low"

\* C22: the severity of every factor that assess_customer or assess_channel
\* returns is the threshold function of the factor's own risk_score: low
\* below 30, medium in [30, 50), high in [50, 70), critical from 70
C22_SeverityFollowsRiskScore ==
    last.op \in {"assess_customer", "assess_channel"} =>
        \A i \in DOMAIN last.value.risk_factors :
            last.value.risk_factors[i].severity
                = C22_Threshold(risk_score(last.value.risk_factors[i]))

\* the category weights of the claim, in hundredths
C23_Weight(category) ==
    CASE category = "business"    -> 30
      [] category = "technical"   -> 25
      [] category = "compliance"  -> 25
      [] category = "operational" -> 15
      [] category = "integration" -> 5

RECURSIVE C23_Sum(_, _)
\* the sum of the risk scores (tenths) of the factors at a set of positions
C23_Sum(factors, positions) ==
    IF positions = {} THEN 0
    ELSE LET i == CHOOSE j \in positions : TRUE
         IN  risk_score(factors[i]) + C23_Sum(factors, positions \ {i})

C23_Positions(factors, category) ==
    {i \in DOMAIN factors : factors[i].category = category}

\* weight x mean risk_score of one category, in thousandths; nothing for a
\* category without a factor
C23_Share(factors, category) ==
    LET positions == C23_Positions(factors, category)
    IN  IF positions = {} THEN 0
        ELSE (C23_Weight(category) * C23_Sum(factors, positions))
                 \div Cardinality(positions)

C23_Overall(factors) ==
    C23_Share(factors, "business") + C23_Share(factors, "technical")
        + C23_Share(factors, "compliance") + C23_Share(factors, "operational")
        + C23_Share(factors, "integration")

C23_Level(score) ==
    IF score >= 70000 THEN "critical"
    ELSE IF score >= 50000 THEN "high"
    ELSE IF score >= 30000 THEN "medium"
    ELSE "low"

\* the factors that the latest call scored
C23_Factors ==
    IF last.op = "_calculate_overall_risk" THEN last.input ELSE last.value.risk_factors

\* C23: the overall_risk_score of every assessment is the sum, over the
\* categories that have a factor, of weight x mean risk_score (business 0.30,
\* technical 0.25, compliance 0.25, operational 0.15, integration 0.05); it
\* lies in [0, 100]; the readiness score is 100 - overall; the risk level is
\* the threshold function (30/50/70) of the overall score; without factors
\* the score is 0 and the level low (scores in thousandths)
C23_OverallIsWeightedMean ==
    last.op \in {"assess_customer", "assess_channel", "_calculate_overall_risk"} =>
        /\ \A category \in RiskCategory :
               LET positions == C23_Positions(C23_Factors, category)
               IN  positions # {} =>
                       (C23_Weight(category) * C23_Sum(C23_Factors, positions))
                           % Cardinality(positions) = 0
        /\ last.value.overall_risk_score = C23_Overall(C23_Factors)
        /\ last.value.overall_risk_score >= 0
        /\ last.value.overall_risk_score <= 100000
        /\ last.value.risk_level = C23_Level(last.value.overall_risk_score)
        /\ last.op # "_calculate_overall_risk" =>
               last.value.migration_readiness_score
                   = 100000 - last.value.overall_risk_score
        /\ C23_Factors = <<>> =>
               /\ last.value.overall_risk_score = 0
               /\ last.value.risk_level = "low"

\* a critical customer with two compliance requirements, six channels and
\* no contact was assessed: six factors in five categories, 42.225, medium
C23_Witness ==
    /\ last.op = "assess_customer"
    /\ Len(last.value.risk_factors) = 6
    /\ Cardinality(C23_Positions(last.value.risk_factors, "compliance")) = 2
    /\ last.value.overall_risk_score = 42225
    /\ last.value.risk_level = "medium"
    /\ last.value.migration_readiness_score = 57775

\* the second customer is the first with one more compliance requirement
C24_OneMoreRequirement(customer, other) ==
    /\ Len(other.compliance_requirements) = Len(customer.compliance_requirements) + 1
    /\ [other EXCEPT !.compliance_requirements = customer.compliance_requirements]
           = customer

\* C24: adding one compliance requirement to a customer, every other
\* attribute kept, never lowers the overall_risk_score of assess_customer
C24_ComplianceNeverLowersRisk ==
    \A i \in DOMAIN assessments : \A j \in DOMAIN assessments :
        (/\ assessments[i].op = "assess_customer"
         /\ assessments[j].op = "assess_customer"
         /\ C24_OneMoreRequirement(assessments[i].input, assessments[j].input)) =>
            assessments[j].value.overall_risk_score
                >= assessments[i].value.overall_risk_score

\* a customer was assessed with no, with one and with two requirements: the
\* first requirement raised the score, the second left it where it was
C24_Witness ==
    /\ Len(assessments) = 3
    /\ \A i \in 1..3 : assessments[i].op = "assess_customer"
    /\ Len(assessments[1].input.compliance_requirements) = 0
    /\ C24_OneMoreRequirement(assessments[1].input, assessments[2].input)
    /\ C24_OneMoreRequirement(assessments[2].input, assessments[3].input)
    /\ assessments[2].value.overall_risk_score
           = assessments[1].value.overall_risk_score + 7000
    /\ assessments[3].value.overall_risk_score
           = assessments[2].value.overall_risk_score

C26_Order ==
    <<"risk_assessment", "analysis", "schema_mapping", "data_migration", "validation">>

\* the phases whose results the MigrationResult holds, in the order recorded
C26_Recorded ==
    [i \in 1..Len(run.result.phases) |-> run.result.phases[i].of]

\* C26: run_migration runs risk assessment, analysis, schema mapping, data
\* migration and validation one after another, each phase starting when the
\* results of exactly the phases before it are recorded; a result of status
\* completed holds exactly the five phase results in that order
C26_PhasesRunInOrder ==
    run.result # None =>
        /\ run.pc # "idle" =>
               \E k \in DOMAIN C26_Order :
                   /\ run.pc = C26_Order[k]
                   /\ C26_Recorded = SubSeq(C26_Order, 1, k - 1)
                   /\ run.result.status = "in_progress"
        /\ run.result.status = "completed" =>
               /\ run.pc = "idle"
               /\ C26_Recorded = C26_Order

\* a run over one table of two records returned completed with five phase
\* results
C26_Witness ==
    /\ run.pc = "idle"
    /\ run.result # None
    /\ run.result.status = "completed"
    /\ Len(run.result.phases) = 5
    /\ run.result.records_migrated = 2
    /\ last = RunCall("run_migration", "ok")

\* the position of a phase in the order of the claim
C27_Position(phase) == CHOOSE k \in DOMAIN C26_Order : C26_Order[k] = phase

\* C27: when a phase raises, run_migration returns (it does not raise) a
\* result of status failed with the error in its error list, a completion
\* timestamp, and the results of exactly the phases that finished before the
\* failure; no returned result is in_progress
C27_FailureIsReturned ==
    (run.pc = "idle" /\ run.result # None) =>
        /\ run.result.status \in {"completed", "failed"}
        /\ last.op = "run_migration" => last.outcome = "ok"
        /\ run.raised_in = None => run.result.status = "completed"
        /\ run.raised_in # None =>
               /\ run.result.status = "failed"
               /\ Len(run.result.errors) = 1
               /\ run.result.completed_at # None
               /\ C26_Recorded
                      = SubSeq(C26_Order, 1, C27_Position(run.raised_in[1]) - 1)

\* the data migration raised on a DECIMAL column holding text: the call
\* returned failed with the three earlier phase results
C27_Witness ==
    /\ run.pc = "idle"
    /\ run.raised_in = <<"data_migration">>
    /\ run.result.status = "failed"
    /\ run.result.errors = <<"ValueError">>
    /\ Len(run.result.phases) = 3
    /\ last = RunCall("run_migration", "ok")

\* C28: when the validation phase finds a legacy table whose record count
\* differs from the count of its target table, nothing is raised: the table
\* gets an unmatched validation entry, the validation phase result has
\* status failed, and run_migration returns status completed
C28_MismatchIsReported ==
    [][(run.pc = "validation" /\ run'.pc = "idle") =>
          \A k \in DOMAIN run.legacy :
              run.legacy[k].count
                  # (IF lower_key(k) \in DOMAIN run.cloud THEN run.cloud[lower_key(k)] ELSE 0) =>
                  /\ last' = RunCall("run_migration", "ok")
                  /\ run'.raised_in = None
                  /\ run'.result.status = "completed"
                  /\ run'.result.errors = <<>>
                  /\ run'.result.phases[5].status = "failed"
                  /\ \E i \in DOMAIN run'.result.phases[5].detail :
                         /\ run'.result.phases[5].detail[i].table = k
                         /\ ~run'.result.phases[5].detail[i].matched]_vars

\* a run returned completed with a validation phase result of status failed
\* that holds an unmatched entry
C28_Witness ==
    /\ run.pc = "idle"
    /\ run.result # None
    /\ run.result.status = "completed"
    /\ Len(run.result.phases) = 5
    /\ run.result.phases[5].status = "failed"
    /\ \E i \in DOMAIN run.result.phases[5].detail :
           /\ ~run.result.phases[5].detail[i].matched
           /\ run.result.phases[5].detail[i].source_count = 1
           /\ run.result.phases[5].detail[i].target_count = 3

\* C29: every endpoint that takes a plan id answers 404 to an unknown plan
\* id, and answers 400 only to an invalid state transition (a plan that is
\* not ready for execution)
C29_UnknownPlanIs404 ==
    last.op \in PlanEndpoints =>
        /\ last.outcome = "not_found" => status_code(last.op, last.outcome) = 404
        /\ status_code(last.op, last.outcome) = 400 => last.outcome = "invalid_state"

\* the simulation the Simulation Engine returns for a channel:
\* create_simulation followed by execute_simulation
C30_EngineVerdict(channel) ==
    ExecutedSimulation(
        MigrationSimulationObject("SIM-3c9d2a71", channel.channel_id,
                                  _generate_scenarios(channel), "pending", Rate(0, 1)),
        now)

\* C30: for each channel of the plan, the simulation_passed flag and the
\* per-channel result that run_simulations records are the verdict of the
\* Simulation Engine for that channel: the same pass/fail outcome and the
\* same success rate
C30_RecordsEngineVerdict ==
    (last.op = "run_simulations" /\ last.outcome = "ok") =>
        \A i \in DOMAIN migration_plans[last.plan_id].channel_migrations :
            LET channel_migration == migration_plans[last.plan_id].channel_migrations[i]
                verdict  == C30_EngineVerdict(channel_migration)
                recorded == last.value[1][channel_migration.channel_id]
            IN  /\ channel_migration.simulation_passed = passed(verdict)
                /\ (recorded.status = "passed") = passed(verdict)
                /\ recorded.success_rate.num * verdict.success_rate.den
                       = verdict.success_rate.num * recorded.success_rate.den

RECURSIVE C31_Total(_, _)
\* the number of records over the legacy tables of the keys
C31_Total(keys, legacy) ==
    IF keys = {} THEN 0
    ELSE LET k == CHOOSE x \in keys : TRUE
         IN  legacy[k].count + C31_Total(keys \ {k}, legacy)

\* C31: when run_migration returns completed, the target table of every
\* legacy table (lower-cased schema and name) holds exactly as many records
\* as the source table, every validation entry is matched, and
\* records_migrated is the number of records over all legacy tables
C31_CompletedRunIsFaithful ==
    [][(run.pc = "validation" /\ run'.pc = "idle"
            /\ run'.result.status = "completed") =>
          /\ \A k \in DOMAIN run'.legacy :
                 get_table_count(run'.cloud, lower_key(k)) = run'.legacy[k].count
          /\ \A i \in DOMAIN run'.result.phases[5].detail :
                 run'.result.phases[5].detail[i].matched
          /\ run'.result.records_migrated
                 = C31_Total(DOMAIN run'.legacy, run'.legacy)]_vars

\* a completed run returns that follows a completed run over the same
\* legacy data
C40_RepeatedRunReturns ==
    /\ run.pc = "validation"
    /\ run'.pc = "idle"
    /\ run'.result.status = "completed"
    /\ run.previous # None
    /\ run.previous[1].status = "completed"

\* C40: repeated runs of run_migration on the same orchestrator do not
\* duplicate data: after a repeated run each target table holds exactly as
\* many records as its legacy source table, and records_migrated is that of
\* the run before over the same legacy data
C40_RepeatedRunsDoNotDuplicate ==
    [][C40_RepeatedRunReturns =>
          /\ \A k \in DOMAIN run'.legacy :
                 get_table_count(run'.cloud, lower_key(k)) = run'.legacy[k].count
          /\ run'.result.records_migrated = run.previous[1].records_migrated]_vars

\* C38: no input makes the risk model report a high or critical risk_level:
\* the overall_risk_score of assess_customer is at most 42.225 (level low or
\* medium), that of assess_channel at most 17.225 (level low)
C38_RiskLevelIsCapped ==
    /\ (last.op = "assess_customer" /\ last.outcome = "ok") =>
           /\ last.value.overall_risk_score <= 42225
           /\ last.value.risk_level \in {"low", "medium"}
    /\ (last.op = "assess_channel" /\ last.outcome = "ok") =>
           /\ last.value.overall_risk_score <= 17225
           /\ last.value.risk_level = "low"

\* the assessment of a critical customer with compliance requirements, more
\* than five channels and no contact reaches 42.225, level medium
C38_Witness ==
    /\ last.op = "assess_customer"
    /\ last.input.business_criticality = "critical"
    /\ Len(last.input.compliance_requirements) = MaxRequirements
    /\ ~last.input.has_contact
    /\ Len(last.value.risk_factors) = MaxRequirements + 4
    /\ last.value.overall_risk_score = 42225
    /\ last.value.risk_level = "medium"

\* C33: for every channel type, executing a freshly created simulation marks
\* every scenario successful and yields success_rate 100 and overall status
\* passed; no execution by the engine leaves a simulation that has a scenario
\* in status failed
C33_EngineNeverFails ==
    (last.op = "execute_simulation") =>
        /\ simulation.simulation_id = "SIM-3c9d2a71" =>
               /\ last.outcome = "ok"
               /\ simulation.scenarios # <<>>
               /\ simulation.scenarios[1].channel_type \in ChannelType
               /\ Len(simulation.results) = Len(simulation.scenarios)
               /\ \A i \in DOMAIN simulation.results :
                      /\ simulation.results[i].success
                      /\ simulation.results[i].differences = <<>>
               /\ simulation.success_rate.num = 100 * simulation.success_rate.den
               /\ simulation.overall_status = "passed"
        /\ simulation.scenarios # <<>> => simulation.overall_status # "failed"
        /\ (last.outcome = "ok" /\ simulation.scenarios # <<>>) =>
               /\ simulation.success_rate.num = 100 * simulation.success_rate.den
               /\ simulation.overall_status = "passed"

\* the two scenarios of a freshly created EDI simulation were executed: both
\* succeeded and the simulation passed with success_rate 100
C33_Witness ==
    /\ last = SimCall("execute_simulation", "ok")
    /\ simulation.simulation_id = "SIM-3c9d2a71"
    /\ Len(simulation.scenarios) = 2
    /\ simulation.scenarios[1].channel_type = "edi"
    /\ Len(simulation.results) = 2
    /\ simulation.results[2].success
    /\ simulation.overall_status = "passed"
    /\ simulation.success_rate = Rate(200, 2)

\* a cutover as initiate_cutover registers it: status initiated, cursor 0,
\* every step pending, zeroed metrics, no completion and no rollback record
C39_Fresh(cutover) ==
    /\ cutover.status = "initiated"
    /\ cutover.current_step = 0
    /\ cutover.steps = _generate_cutover_steps(cutover.strategy)
    /\ \A i \in DOMAIN cutover.steps : cutover.steps[i].status = "pending"
    /\ cutover.metrics = Metrics(0, 0, 0)
    /\ cutover.completed_at = None
    /\ cutover.rollback = None

\* C39: the registry holds at most one cutover per channel id, under the id
\* CUTOVER-<channel id>; initiate_cutover for a channel that has a cutover
\* replaces it with a fresh one, whatever state the earlier one was in, and
\* leaves the cutovers of the other channels as they were
C39_InitiateReplaces ==
    [][/\ \A c \in DOMAIN active_cutovers' :
              c = CutoverIdOf(active_cutovers'[c].channel_id)
       /\ (last'.op = "initiate_cutover" /\ last' # last) =>
              /\ last'.outcome = "ok"
              /\ last'.value = Replaced(last'.cutover_id)
              /\ DOMAIN active_cutovers' = DOMAIN active_cutovers \cup {last'.cutover_id}
              /\ C39_Fresh(active_cutovers'[last'.cutover_id])
              /\ \A c \in DOMAIN active_cutovers \ {last'.cutover_id} :
                     active_cutovers'[c] = active_cutovers[c]]_vars

\* initiate_cutover replaced a rolled-back cutover of the channel that had
\* executed a step: the registered cutover is fresh again
C39_Witness ==
    /\ last.op = "initiate_cutover"
    /\ last.value # <<>>
    /\ last.value[1].status = "rolled_back"
    /\ last.value[1].current_step > 0
    /\ last.value[1].rollback # None
    /\ C39_Fresh(active_cutovers[last.cutover_id])
    /\ Cardinality(DOMAIN active_cutovers) = 2

\* the channel migrations of the stored plans, as pairs of plan id and index
C34_Channels(plans) ==
    {pair \in (DOMAIN plans) \X (1..MaxChannels) :
        pair[2] \in DOMAIN plans[pair[1]].channel_migrations}

\* C34: in every state reached through create_migration_plan,
\* run_simulations, execute_migration and rollback_migration, a channel that
\* is in_progress or completed has a cutover timestamp, a channel keeps the
\* cutover timestamp it once got, and a channel with a cutover timestamp has
\* simulation_passed true: no channel is executed without a recorded passing
\* simulation
C34_ExecutedChannelsPassedSimulation ==
    [][/\ \A pair \in C34_Channels(migration_plans') :
              LET channel_migration ==
                      migration_plans'[pair[1]].channel_migrations[pair[2]]
              IN  /\ channel_migration.status \in {"in_progress", "completed"} =>
                         channel_migration.cutover_timestamp # None
                  /\ channel_migration.cutover_timestamp # None =>
                         channel_migration.simulation_passed
       /\ \A pair \in C34_Channels(migration_plans) :
              migration_plans[pair[1]].channel_migrations[pair[2]].cutover_timestamp # None =>
                  /\ pair \in C34_Channels(migration_plans')
                  /\ migration_plans'[pair[1]].channel_migrations[pair[2]].cutover_timestamp
                         # None]_vars

\* a channel that was executed and then rolled back: it keeps its cutover
\* timestamp and its passing simulation
C34_Witness ==
    \E pair \in C34_Channels(migration_plans) :
        LET channel_migration == migration_plans[pair[1]].channel_migrations[pair[2]]
        IN  /\ channel_migration.status = "rolled_back"
            /\ channel_migration.cutover_timestamp # None
            /\ channel_migration.simulation_passed
            /\ last.op = "rollback_migration"

\* C35: in every state reached by calls of the orchestrator's operations, a
\* plan whose overall status is ready has every channel in status ready with
\* simulation_passed true, and a plan whose overall status is completed has
\* every channel in status completed and an actual_completion timestamp
C35_PlanStatusMatchesChannels ==
    \A p \in DOMAIN migration_plans :
        LET plan == migration_plans[p]
        IN  /\ plan.overall_status = "ready" =>
                   \A i \in DOMAIN plan.channel_migrations :
                       /\ plan.channel_migrations[i].status = "ready"
                       /\ plan.channel_migrations[i].simulation_passed
            /\ plan.overall_status = "completed" =>
                   /\ plan.actual_completion # None
                   /\ \A i \in DOMAIN plan.channel_migrations :
                          plan.channel_migrations[i].status = "completed"

\* execute_migration completed a ready plan of MaxChannels channels: every
\* channel is completed and the completion is stamped
C35_Witness ==
    /\ last.op = "execute_migration"
    /\ last.outcome = "ok"
    /\ migration_plans[last.plan_id].overall_status = "completed"
    /\ migration_plans[last.plan_id].actual_completion # None
    /\ Len(migration_plans[last.plan_id].channel_migrations) = MaxChannels
    /\ \A i \in DOMAIN migration_plans[last.plan_id].channel_migrations :
           migration_plans[last.plan_id].channel_migrations[i].simulation_passed

\* C36: execute_migration with a channel_id on a ready plan in which some
\* other channel is not completed leaves the plan in_progress; every
\* execute_migration on an in_progress plan fails with invalid-state and
\* changes nothing; a plan leaves in_progress for ready only through
\* run_simulations (and otherwise only for rolled_back); so a plan with two
\* or more channels is only ever completed by an execute_migration without a
\* channel_id
C36_ChannelByChannelStalls ==
    [][\A p \in DOMAIN migration_plans :
           LET before == migration_plans[p]
               after  == migration_plans'[p]
               called == last'.op = "execute_migration" /\ last'.plan_id = p
           IN  /\ (/\ called
                   /\ before.overall_status = "ready"
                   /\ last'.channel_id # NoChannelId
                   /\ \E i \in DOMAIN before.channel_migrations :
                          /\ before.channel_migrations[i].channel_id # last'.channel_id
                          /\ before.channel_migrations[i].status # "completed") =>
                      /\ last'.outcome = "ok"
                      /\ after.overall_status = "in_progress"
               /\ (called /\ before.overall_status = "in_progress") =>
                      /\ last'.outcome = "invalid_state"
                      /\ after = before
               /\ (before.overall_status = "in_progress"
                       /\ after.overall_status # "in_progress") =>
                      \/ last'.op = "run_simulations" /\ after.overall_status = "ready"
                      \/ last'.op = "rollback_migration"
                             /\ after.overall_status = "rolled_back"
               /\ (before.overall_status # "completed"
                       /\ after.overall_status = "completed"
                       /\ Len(before.channel_migrations) >= 2) =>
                      /\ called
                      /\ last'.channel_id = NoChannelId]_vars

\* one channel of a two-channel plan was executed, the plan is in_progress,
\* and the next execute_migration on the plan failed with invalid-state
C36_Witness ==
    /\ last.op = "execute_migration"
    /\ last.outcome = "invalid_state"
    /\ migration_plans[last.plan_id].overall_status = "in_progress"
    /\ Len(migration_plans[last.plan_id].channel_migrations) = 2
    /\ migration_plans[last.plan_id].channel_migrations[1].status = "completed"
    /\ migration_plans[last.plan_id].channel_migrations[2].status = "ready"

\* C37: whenever a plan with at least one channel has overall status
\* completed, get_migration_status reports progress_percentage 100; a plan
\* of a customer with no channels becomes ready on run_simulations and
\* completed on execute_migration, and its progress_percentage is 0
\* throughout
C37_ProgressOfCompletedPlans ==
    [][/\ \A p \in DOMAIN migration_plans' :
              LET plan     == migration_plans'[p]
                  progress == StatusSnapshot(plan).progress_percentage
              IN  /\ (plan.overall_status = "completed"
                          /\ Len(plan.channel_migrations) >= 1) =>
                         progress.num = 100 * progress.den
                  /\ plan.channel_migrations = <<>> => progress.num = 0
       /\ (last'.op = "get_migration_status" /\ last'.outcome = "ok") =>
              last'.value = <<StatusSnapshot(migration_plans'[last'.plan_id])>>
       /\ \A p \in DOMAIN migration_plans :
              (migration_plans[p].channel_migrations = <<>> /\ last'.plan_id = p) =>
                  /\ last'.op = "run_simulations" =>
                         migration_plans'[p].overall_status = "ready"
                  /\ (last'.op = "execute_migration"
                          /\ migration_plans[p].overall_status = "ready") =>
                         /\ last'.outcome = "ok"
                         /\ migration_plans'[p].overall_status = "completed"]_vars

\* get_migration_status reports a completed plan without channels at 0
\* percent
C37_Witness ==
    /\ last.op = "get_migration_status"
    /\ last.outcome = "ok"
    /\ last.value[1].overall_status = "completed"
    /\ last.value[1].channels = <<>>
    /\ last.value[1].progress_percentage.num = 0
    /\ migration_plans[last.plan_id].actual_completion # None

\* overall status completed while a channel of the plan is rolled_back
C32_Torn(plan) ==
    /\ plan.overall_status = "completed"
    /\ \E i \in DOMAIN plan.channel_migrations :
           plan.channel_migrations[i].status = "rolled_back"

\* the plans the two calls leave when one runs after the other has returned,
\* in either order, from the ready plan they were made on
C32_SequentialOutcomes ==
    LET ready    == PlanAtStage(Customer(Len(ThePlan.channel_migrations)), "ready")
        execute  == requests["execute_migration"]
        rollback == requests["rollback_migration"]
        rolled   == RolledBackPlan(ready, rollback.channel_id, rollback.reason)
    IN  {RolledBackPlan(ExecutedPlan(ready, execute.channel_id, now),
                        rollback.channel_id, rollback.reason),
         IF rolled.overall_status = "ready"
         THEN ExecutedPlan(rolled, execute.channel_id, now)
         ELSE rolled}

\* C32: plan operations are not atomic with respect to each other.  When an
\* execute_migration and a rollback_migration on the same plan have both
\* returned: if they ran one after the other the plan is what the two
\* operations leave in that order, and in neither order is it completed with
\* a rolled_back channel; a plan that is completed with a rolled_back
\* channel was left by calls whose statements interleaved
C32_TornPlanNeedsInterleaving ==
    (requests["execute_migration"].pc = "done"
         /\ requests["rollback_migration"].pc = "done") =>
        /\ \A plan \in C32_SequentialOutcomes : ~C32_Torn(plan)
        /\ ~requests.overlapped => ThePlan \in C32_SequentialOutcomes
        /\ C32_Torn(ThePlan) => requests.overlapped

\* both calls have returned "ok" and the plan is completed with every
\* channel rolled_back: a state the interleaved statements reach
C32_Witness ==
    /\ requests["execute_migration"].pc = "done"
    /\ requests["execute_migration"].outcome = "ok"
    /\ requests["rollback_migration"].pc = "done"
    /\ requests["rollback_migration"].outcome = "ok"
    /\ requests.overlapped
    /\ C32_Torn(ThePlan)
    /\ ThePlan.actual_completion # None
    /\ ThePlan \notin C32_SequentialOutcomes

====
